---- MODULE Spec2Model ----
\* Model of terraform-provider-posthog: the typed HTTP client
\* (internal/posthog) and the two reconciliation adapters
\* (internal/provider) for actions and projects.
EXTENDS Integers, Sequences, FiniteSets, TLC

VARIABLES
    state,      \* the tracked Terraform state of the resource (resp.State after the handler)
    op,         \* the last handler (or pure function) that ran
    input,      \* what the handler was given (plan / prior state / import id / argument)
    reqs,       \* the HTTP requests the last handler issued, in order
    httpRes,    \* what the transport answered to the last request
    ret,        \* what the client method returned to the handler
    diags,      \* resp.Diagnostics after the handler: sequence of error summaries
    writes,     \* the calls the handler made on resp.State, in order
    remote      \* what the remote service stores, where the remote is part of the run

vars == <<state, op, input, reqs, httpRes, ret, diags, writes, remote>>

\* no remote service takes part: the answers are drawn from a set
NoRemote == [kind |-> "none"]

----------------------------------------------------------------------------
\* Bounds of the model

\* identifiers 0..MaxSmallID are enumerated, plus the boundary values below
MaxSmallID == 130
\* strings handed to the identifier parser: every string over Alphabet up to this length
MaxStrLen == 3

----------------------------------------------------------------------------
\* Strings that the code inspects character by character are sequences of
\* one-character strings; opaque strings (names, urls) are TLA+ strings.

DigitChars == <<"0", "1", "2", "3", "4", "5", "6", "7", "8", "9">>

IsDigit(c) == \E i \in 1..10 : DigitChars[i] = c

DigitVal(c) == (CHOOSE i \in 1..10 : DigitChars[i] = c) - 1

\* uint64 as four 16-bit limbs, least significant first
LimbBase == 65536

U64(l0, l1, l2, l3) == <<l0, l1, l2, l3>>

Zero64 == U64(0, 0, 0, 0)

\* math.MaxUint64
MaxUint64 == U64(65535, 65535, 65535, 65535)

\* maxUint64/10 + 1 = 0x199999999999999A
Cutoff10 == U64(39322, 39321, 39321, 6553)

\* a < b on uint64
LessU64(a, b) ==
    \/ a[4] < b[4]
    \/ a[4] = b[4] /\ a[3] < b[3]
    \/ a[4] = b[4] /\ a[3] = b[3] /\ a[2] < b[2]
    \/ a[4] = b[4] /\ a[3] = b[3] /\ a[2] = b[2] /\ a[1] < b[1]

\* a*m + d modulo 2^64, for small m and d (Go's wrapping uint64 arithmetic)
MulAddU64(a, m, d) ==
    LET t1 == a[1] * m + d
        t2 == a[2] * m + (t1 \div LimbBase)
        t3 == a[3] * m + (t2 \div LimbBase)
        t4 == a[4] * m + (t3 \div LimbBase)
    IN  U64(t1 % LimbBase, t2 % LimbBase, t3 % LimbBase, t4 % LimbBase)

\* quotient and remainder of a uint64 by 10
DivMod10(a) ==
    LET c4 == a[4]
        c3 == (c4 % 10) * LimbBase + a[3]
        c2 == (c3 % 10) * LimbBase + a[2]
        c1 == (c2 % 10) * LimbBase + a[1]
    IN  [q |-> U64(c1 \div 10, c2 \div 10, c3 \div 10, c4 \div 10), r |-> c1 % 10]

\* a small natural number as a uint64
ToU64(n) == U64(n % LimbBase, n \div LimbBase, 0, 0)

----------------------------------------------------------------------------
\* strconv.ParseUint(s, 10, 64) and strconv.FormatUint(i, 10)

ErrNil == "nil"
ErrSyntax == "ErrSyntax"
ErrRange == "ErrRange"

RECURSIVE ParseLoop(_, _, _)
ParseLoop(s, i, n) ==
    IF i > Len(s) THEN [val |-> n, err |-> ErrNil]
    ELSE IF ~IsDigit(s[i]) THEN [val |-> Zero64, err |-> ErrSyntax]
    ELSE IF ~LessU64(n, Cutoff10) THEN [val |-> MaxUint64, err |-> ErrRange]
    ELSE LET m  == MulAddU64(n, 10, 0)
             n1 == MulAddU64(m, 1, DigitVal(s[i]))
         IN  IF LessU64(n1, m) THEN [val |-> MaxUint64, err |-> ErrRange]
             ELSE ParseLoop(s, i + 1, n1)

\* mutant: no overflow detection, the value wraps modulo 2^64
RECURSIVE ParseLoopWrap(_, _, _)
ParseLoopWrap(s, i, n) ==
    IF i > Len(s) THEN [val |-> n, err |-> ErrNil]
    ELSE IF ~IsDigit(s[i]) THEN [val |-> Zero64, err |-> ErrSyntax]
    ELSE ParseLoopWrap(s, i + 1, MulAddU64(n, 10, DigitVal(s[i])))

ParseUintWrap(s) ==
    IF s = <<>> THEN [val |-> Zero64, err |-> ErrSyntax] ELSE ParseLoopWrap(s, 1, Zero64)

ParseUint(s) ==
    IF s = <<>> THEN [val |-> Zero64, err |-> ErrSyntax] ELSE ParseLoop(s, 1, Zero64)

RECURSIVE FormatDigits(_)
FormatDigits(i) ==
    IF i = Zero64 THEN <<>>
    ELSE LET dm == DivMod10(i) IN FormatDigits(dm.q) \o <<DigitChars[dm.r + 1]>>

\* mutant: the value 0 is rendered as the empty string
FormatUintNoZero(i) == FormatDigits(i)

\* mutant: rendered zero-padded to at least three digits
FormatUintPadded(i) ==
    LET d == FormatDigits(i)
    IN  IF Len(d) >= 3 THEN d ELSE [k \in 1..(3 - Len(d)) |-> "0"] \o d

FormatUint(i) == IF i = Zero64 THEN <<"0">> ELSE FormatDigits(i)

\* ProjectID.String / ActionID.String
ProjectIDString(i) == FormatUint(i)

ActionIDString(i) == FormatUint(i)

\* ProjectIDFromString / ActionIDFromString: the value is returned with the error
ProjectIDFromString(s) == ParseUint(s)

ActionIDFromString(s) == ParseUint(s)

----------------------------------------------------------------------------
\* Go values

\* a slice is nil or holds a sequence of elements
NilSlice == [isNil |-> TRUE, elems |-> <<>>]

Slice(elems) == [isNil |-> FALSE, elems |-> elems]

\* the zero time.Time as encoding/json renders it
ZeroTime == "0001-01-01T00:00:00Z"

ProjectToolbarModeDisabled == "disabled"
ProjectToolbarModeToolbar == "toolbar"
ProjectSessionRecordingVersionV1 == "v1"
ProjectSessionRecordingVersionV2 == "v2"

\* net/http status codes the client names
StatusOK == 200
StatusCreated == 201
StatusNoContent == 204
StatusNotFound == 404

\* mutant: a nil slice is left nil
nilSliceToEmptyNoop(v) == v

\* nilSliceToEmpty: a nil slice becomes an empty non-nil slice
nilSliceToEmpty(v) == IF v.isNil THEN Slice(<<>>) ELSE v

----------------------------------------------------------------------------
\* encoding/json: a JSON object is a record holding the members that are
\* present; a JSON array (or null in its place) is a slice value.

\* a member with the omitempty tag is left out when it is the empty string
OmitEmpty(k, v) == IF v = "" THEN <<>> ELSE (k :> v)

\* the member k of object o, or the zero value of the target field
Member(o, k, zero) == IF k \in DOMAIN o THEN o[k] ELSE zero

MarshalCreateActionStepRequest(st) ==
    [event |-> st.Event]
        @@ OmitEmpty("url", st.URL) @@ OmitEmpty("url_matching", st.URLMatching)
        @@ OmitEmpty("text", st.Text) @@ OmitEmpty("text_matching", st.TextMatching)
        @@ OmitEmpty("href", st.Href) @@ OmitEmpty("href_matching", st.HrefMatching)
        @@ OmitEmpty("selector", st.Selector)

MarshalActionStep(st) ==
    [id |-> st.ID, event |-> st.Event]
        @@ OmitEmpty("url", st.URL) @@ OmitEmpty("url_matching", st.URLMatching)
        @@ OmitEmpty("text", st.Text) @@ OmitEmpty("text_matching", st.TextMatching)
        @@ OmitEmpty("href", st.Href) @@ OmitEmpty("href_matching", st.HrefMatching)
        @@ OmitEmpty("selector", st.Selector)

MarshalCreateActionRequest(a) ==
    [name |-> a.Name,
     tags |-> a.Tags,
     post_to_slack |-> a.PostToSlack,
     steps |-> [isNil |-> a.Steps.isNil,
                elems |-> [i \in 1..Len(a.Steps.elems) |->
                              MarshalCreateActionStepRequest(a.Steps.elems[i])]]]
        @@ OmitEmpty("description", a.Description)
        @@ OmitEmpty("slack_message_format", a.SlackMessageFormat)

MarshalAction(a) ==
    [id |-> a.ID,
     name |-> a.Name,
     description |-> a.Description,
     tags |-> a.Tags,
     post_to_slack |-> a.PostToSlack,
     slack_message_format |-> a.SlackMessageFormat,
     steps |-> [isNil |-> a.Steps.isNil,
                elems |-> [i \in 1..Len(a.Steps.elems) |-> MarshalActionStep(a.Steps.elems[i])]],
     deleted |-> a.Deleted,
     is_calculating |-> a.IsCalculating,
     created_at |-> a.CreatedAt,
     last_calculated_at |-> a.LastCalculatedAt]

MarshalCreateProjectRequest(p) ==
    [name |-> p.Name,
     autocapture_opt_out |-> p.AutocaptureOptOut,
     timezone |-> p.Timezone,
     app_urls |-> p.AppURLs,
     data_attributes |-> p.DataAttributes,
     person_display_name_properties |-> p.PersonDisplayNameProperties,
     slack_incoming_webhook |-> p.SlackIncomingWebhook,
     anonymize_ips |-> p.AnonymizeIPs,
     toolbar_mode |-> p.ToolbarMode,
     capture_performance_opt_in |-> p.CapturePerformanceOptIn,
     capture_console_log_opt_in |-> p.CaptureConsoleLogOptIn,
     session_recording_opt_in |-> p.SessionRecordingOptIn,
     session_recording_version |-> p.SessionRecordingVersion,
     recording_domains |-> p.RecordingDomains,
     access_control |-> p.AccessControl,
     completed_snippet_onboarding |-> p.CompletedSnippetOnboarding]

MarshalProject(p) ==
    [id |-> p.ID,
     name |-> p.Name,
     autocapture_opt_out |-> p.AutocaptureOptOut,
     timezone |-> p.Timezone,
     app_urls |-> p.AppURLs,
     data_attributes |-> p.DataAttributes,
     person_display_name_properties |-> p.PersonDisplayNameProperties,
     slack_incoming_webhook |-> p.SlackIncomingWebhook,
     anonymize_ips |-> p.AnonymizeIPs,
     toolbar_mode |-> p.ToolbarMode,
     capture_performance_opt_in |-> p.CapturePerformanceOptIn,
     capture_console_log_opt_in |-> p.CaptureConsoleLogOptIn,
     session_recording_opt_in |-> p.SessionRecordingOptIn,
     session_recording_version |-> p.SessionRecordingVersion,
     recording_domains |-> p.RecordingDomains,
     access_control |-> p.AccessControl,
     api_token |-> p.APIToken,
     completed_snippet_onboarding |-> p.CompletedSnippetOnboarding,
     created_at |-> p.CreatedAt,
     updated_at |-> p.UpdatedAt]

\* json.Marshal of the request input, by the Go type of the input
Marshal(in) ==
    CASE in.type = "CreateActionRequest" -> MarshalCreateActionRequest(in.val)
      [] in.type = "Action" -> MarshalAction(in.val)
      [] in.type = "CreateProjectRequest" -> MarshalCreateProjectRequest(in.val)
      [] in.type = "Project" -> MarshalProject(in.val)

UnmarshalActionStep(o) ==
    [ID |-> Member(o, "id", ""),
     Event |-> Member(o, "event", ""),
     URL |-> Member(o, "url", ""),
     URLMatching |-> Member(o, "url_matching", ""),
     Text |-> Member(o, "text", ""),
     TextMatching |-> Member(o, "text_matching", ""),
     Href |-> Member(o, "href", ""),
     HrefMatching |-> Member(o, "href_matching", ""),
     Selector |-> Member(o, "selector", "")]

\* mutant: the deleted member of the response is not decoded
UnmarshalActionDeletedDropped(o) ==
    LET steps == Member(o, "steps", NilSlice)
    IN  [ID |-> Member(o, "id", Zero64),
         Name |-> Member(o, "name", ""),
         Description |-> Member(o, "description", ""),
         Tags |-> Member(o, "tags", NilSlice),
         PostToSlack |-> Member(o, "post_to_slack", FALSE),
         SlackMessageFormat |-> Member(o, "slack_message_format", ""),
         Steps |-> [isNil |-> steps.isNil,
                    elems |-> [i \in 1..Len(steps.elems) |-> UnmarshalActionStep(steps.elems[i])]],
         Deleted |-> FALSE,
         IsCalculating |-> Member(o, "is_calculating", FALSE),
         CreatedAt |-> Member(o, "created_at", ZeroTime),
         LastCalculatedAt |-> Member(o, "last_calculated_at", ZeroTime)]

\* json.Unmarshal into posthog.Action: absent members leave the zero value
UnmarshalAction(o) ==
    LET steps == Member(o, "steps", NilSlice)
    IN  [ID |-> Member(o, "id", Zero64),
         Name |-> Member(o, "name", ""),
         Description |-> Member(o, "description", ""),
         Tags |-> Member(o, "tags", NilSlice),
         PostToSlack |-> Member(o, "post_to_slack", FALSE),
         SlackMessageFormat |-> Member(o, "slack_message_format", ""),
         Steps |-> [isNil |-> steps.isNil,
                    elems |-> [i \in 1..Len(steps.elems) |-> UnmarshalActionStep(steps.elems[i])]],
         Deleted |-> Member(o, "deleted", FALSE),
         IsCalculating |-> Member(o, "is_calculating", FALSE),
         CreatedAt |-> Member(o, "created_at", ZeroTime),
         LastCalculatedAt |-> Member(o, "last_calculated_at", ZeroTime)]

\* json.Unmarshal into rawProject (the struct without the custom method)
UnmarshalRawProject(o) ==
    [ID |-> Member(o, "id", Zero64),
     Name |-> Member(o, "name", ""),
     AutocaptureOptOut |-> Member(o, "autocapture_opt_out", FALSE),
     Timezone |-> Member(o, "timezone", ""),
     AppURLs |-> Member(o, "app_urls", NilSlice),
     DataAttributes |-> Member(o, "data_attributes", NilSlice),
     PersonDisplayNameProperties |-> Member(o, "person_display_name_properties", NilSlice),
     SlackIncomingWebhook |-> Member(o, "slack_incoming_webhook", ""),
     AnonymizeIPs |-> Member(o, "anonymize_ips", FALSE),
     ToolbarMode |-> Member(o, "toolbar_mode", ""),
     CapturePerformanceOptIn |-> Member(o, "capture_performance_opt_in", FALSE),
     CaptureConsoleLogOptIn |-> Member(o, "capture_console_log_opt_in", FALSE),
     SessionRecordingOptIn |-> Member(o, "session_recording_opt_in", FALSE),
     SessionRecordingVersion |-> Member(o, "session_recording_version", ""),
     RecordingDomains |-> Member(o, "recording_domains", NilSlice),
     AccessControl |-> Member(o, "access_control", FALSE),
     APIToken |-> Member(o, "api_token", ""),
     CompletedSnippetOnboarding |-> Member(o, "completed_snippet_onboarding", FALSE),
     CreatedAt |-> Member(o, "created_at", ZeroTime),
     UpdatedAt |-> Member(o, "updated_at", ZeroTime)]

\* mutant: the toolbar mode is left as decoded
ProjectUnmarshalJSONNoBackfill(o) == UnmarshalRawProject(o)

\* Project.UnmarshalJSON: an empty toolbar mode is backfilled
ProjectUnmarshalJSON(o) ==
    LET p == UnmarshalRawProject(o)
    IN  IF p.ToolbarMode = "" THEN [p EXCEPT !.ToolbarMode = ProjectToolbarModeToolbar] ELSE p

\* A response body is empty, text that is not JSON, the JSON literal null,
\* or a JSON object.
EmptyBody == [kind |-> "empty"]

GarbageBody == [kind |-> "garbage"]

NullBody == [kind |-> "null"]

ObjectBody(o) == [kind |-> "object", val |-> o]

NilPtr == [isNil |-> TRUE]

Ptr(v) == [isNil |-> FALSE, val |-> v]

\* json.NewDecoder(body).Decode(&res) with res a *Action or a *Project
Decode(type, body) ==
    CASE body.kind = "null" -> [ok |-> TRUE, out |-> NilPtr]
      [] body.kind = "object" ->
            [ok |-> TRUE,
             out |-> Ptr(IF type = "Action" THEN UnmarshalAction(body.val)
                         ELSE ProjectUnmarshalJSON(body.val))]
      [] OTHER -> [ok |-> FALSE, out |-> NilPtr]

----------------------------------------------------------------------------
\* Client.do

\* provider configuration
Host == "https://app.posthog.com"
APIKey == "phx_key"

NoInput == [isNil |-> TRUE]

InputOf(type, val) == [isNil |-> FALSE, type |-> type, val |-> val]

NoBody == [present |-> FALSE]

ErrNone == [kind |-> "nil", expected |-> 0, got |-> 0, body |-> [kind |-> "none"]]

ErrTransport == [kind |-> "transport", expected |-> 0, got |-> 0, body |-> [kind |-> "none"]]

ErrDecode == [kind |-> "decode", expected |-> 0, got |-> 0, body |-> [kind |-> "none"]]

ErrStatus(expected, got, body) ==
    [kind |-> "status", expected |-> expected, got |-> got, body |-> body]

\* mutant: every request is labelled as JSON, with or without a body
BuildRequestAlwaysJSON(r) ==
    [Method |-> r.Method,
     URL |-> <<Host, "/api">> \o r.Path,
     Header |-> {<<"Content-Type", <<"application/json">>>>}
                \cup (IF r.Output = "none" THEN {} ELSE {<<"Accept", <<"application/json">>>>})
                \cup {<<"Authorization", <<"Bearer ", APIKey>>>>},
     Body |-> IF r.Input.isNil THEN NoBody ELSE [present |-> TRUE, json |-> Marshal(r.Input)]]

\* the http.Request the client builds for r
BuildRequest(r) ==
    [Method |-> r.Method,
     URL |-> <<Host, "/api">> \o r.Path,
     Header |-> (IF r.Input.isNil THEN {} ELSE {<<"Content-Type", <<"application/json">>>>})
                \cup (IF r.Output = "none" THEN {} ELSE {<<"Accept", <<"application/json">>>>})
                \cup {<<"Authorization", <<"Bearer ", APIKey>>>>},
     Body |-> IF r.Input.isNil THEN NoBody ELSE [present |-> TRUE, json |-> Marshal(r.Input)]]

\* mutant: a 404 is accepted whether or not the request asks for it
StatusAcceptedAny404(r, code) == code = StatusNotFound \/ code = r.ExpectedCode

\* mutant: only the expected code is accepted
StatusAcceptedExpectedOnly(r, code) == code = r.ExpectedCode

\* the status codes that do not make do fail
StatusAccepted(r, code) ==
    (r.OutputNilIf404 /\ code = StatusNotFound) \/ code = r.ExpectedCode

\* mutant: a request the transport failed on is sent a second time
doRetry(r, t) ==
    LET req == BuildRequest(r)
        responseBody == IF r.OutputNilIf404 /\ t.StatusCode = StatusNotFound
                        THEN NullBody ELSE t.Body
        dec == Decode(r.Output, responseBody)
    IN  IF ~t.ok THEN [err |-> ErrTransport, out |-> NilPtr, sent |-> <<req, req>>]
        ELSE IF ~StatusAccepted(r, t.StatusCode)
             THEN [err |-> ErrStatus(r.ExpectedCode, t.StatusCode, t.Body),
                   out |-> NilPtr, sent |-> <<req>>]
        ELSE IF r.Output = "none" THEN [err |-> ErrNone, out |-> NilPtr, sent |-> <<req>>]
        ELSE IF ~dec.ok THEN [err |-> ErrDecode, out |-> NilPtr, sent |-> <<req>>]
        ELSE [err |-> ErrNone, out |-> dec.out, sent |-> <<req>>]

\* do(ctx, r) against a transport that answers t: the error, the decoded
\* output and the requests handed to the transport
do(r, t) ==
    LET req == BuildRequest(r)
        responseBody == IF r.OutputNilIf404 /\ t.StatusCode = StatusNotFound
                        THEN NullBody ELSE t.Body
        dec == Decode(r.Output, responseBody)
    IN  IF ~t.ok THEN [err |-> ErrTransport, out |-> NilPtr, sent |-> <<req>>]
        ELSE IF ~StatusAccepted(r, t.StatusCode)
             THEN [err |-> ErrStatus(r.ExpectedCode, t.StatusCode, t.Body),
                   out |-> NilPtr, sent |-> <<req>>]
        ELSE IF r.Output = "none" THEN [err |-> ErrNone, out |-> NilPtr, sent |-> <<req>>]
        ELSE IF ~dec.ok THEN [err |-> ErrDecode, out |-> NilPtr, sent |-> <<req>>]
        ELSE [err |-> ErrNone, out |-> dec.out, sent |-> <<req>>]

----------------------------------------------------------------------------
\* The client methods

\* url.PathEscape: digits, letters and "-" are kept, "/" is percent-encoded
PathEscape(s) == [i \in 1..Len(s) |-> IF s[i] = "/" THEN "%2F" ELSE s[i]]

\* the apiRequest each client method hands to do

apiRequestCreateAction(projectID, a) ==
    [Method |-> "POST",
     Path |-> <<"/projects/", PathEscape(ProjectIDString(projectID)), "/actions">>,
     Input |-> InputOf("CreateActionRequest",
                       [a EXCEPT !.Tags = nilSliceToEmpty(a.Tags),
                                 !.Steps = nilSliceToEmpty(a.Steps)]),
     ExpectedCode |-> StatusCreated,
     Output |-> "Action",
     OutputNilIf404 |-> FALSE]

apiRequestUpdateAction(projectID, a) ==
    [Method |-> "PATCH",
     Path |-> <<"/projects/", PathEscape(ProjectIDString(projectID)),
                "/actions/", PathEscape(ActionIDString(a.ID))>>,
     Input |-> InputOf("Action",
                       [a EXCEPT !.Tags = nilSliceToEmpty(a.Tags),
                                 !.Steps = nilSliceToEmpty(a.Steps)]),
     ExpectedCode |-> StatusOK,
     Output |-> "Action",
     OutputNilIf404 |-> FALSE]

apiRequestGetAction(projectID, actionID) ==
    [Method |-> "GET",
     Path |-> <<"/projects/", PathEscape(ProjectIDString(projectID)),
                "/actions/", PathEscape(ActionIDString(actionID))>>,
     Input |-> NoInput,
     ExpectedCode |-> StatusOK,
     Output |-> "Action",
     OutputNilIf404 |-> TRUE]

apiRequestCreateProject(p) ==
    [Method |-> "POST",
     Path |-> <<"/projects/">>,
     Input |-> InputOf("CreateProjectRequest",
                       [p EXCEPT !.AppURLs = nilSliceToEmpty(p.AppURLs),
                                 !.DataAttributes = nilSliceToEmpty(p.DataAttributes),
                                 !.PersonDisplayNameProperties =
                                     nilSliceToEmpty(p.PersonDisplayNameProperties),
                                 !.RecordingDomains = nilSliceToEmpty(p.RecordingDomains)]),
     ExpectedCode |-> StatusCreated,
     Output |-> "Project",
     OutputNilIf404 |-> FALSE]

apiRequestUpdateProject(p) ==
    [Method |-> "PATCH",
     Path |-> <<"/projects/", PathEscape(ProjectIDString(p.ID))>>,
     Input |-> InputOf("Project",
                       [p EXCEPT !.AppURLs = nilSliceToEmpty(p.AppURLs),
                                 !.DataAttributes = nilSliceToEmpty(p.DataAttributes),
                                 !.PersonDisplayNameProperties =
                                     nilSliceToEmpty(p.PersonDisplayNameProperties),
                                 !.RecordingDomains = nilSliceToEmpty(p.RecordingDomains)]),
     ExpectedCode |-> StatusOK,
     Output |-> "Project",
     OutputNilIf404 |-> FALSE]

apiRequestGetProject(projectID) ==
    [Method |-> "GET",
     Path |-> <<"/projects/", PathEscape(ProjectIDString(projectID))>>,
     Input |-> NoInput,
     ExpectedCode |-> StatusOK,
     Output |-> "Project",
     OutputNilIf404 |-> TRUE]

\* mutant: the deletion is expected to answer 200 like the other calls
apiRequestDeleteProjectExpectOK(projectID) ==
    [Method |-> "DELETE",
     Path |-> <<"/projects/", PathEscape(ProjectIDString(projectID))>>,
     Input |-> NoInput,
     ExpectedCode |-> StatusOK,
     Output |-> "none",
     OutputNilIf404 |-> FALSE]

apiRequestDeleteProject(projectID) ==
    [Method |-> "DELETE",
     Path |-> <<"/projects/", PathEscape(ProjectIDString(projectID))>>,
     Input |-> NoInput,
     ExpectedCode |-> StatusNoContent,
     Output |-> "none",
     OutputNilIf404 |-> FALSE]

CreateAction(projectID, a, t) == do(apiRequestCreateAction(projectID, a), t)

UpdateAction(projectID, a, t) == do(apiRequestUpdateAction(projectID, a), t)

GetAction(projectID, actionID, t) == do(apiRequestGetAction(projectID, actionID), t)

CreateProject(p, t) == do(apiRequestCreateProject(p), t)

UpdateProject(p, t) == do(apiRequestUpdateProject(p), t)

GetProject(projectID, t) == do(apiRequestGetProject(projectID), t)

DeleteProject(projectID, t) == do(apiRequestDeleteProject(projectID), t)

----------------------------------------------------------------------------
\* Terraform framework values

\* a types.List is null or holds a sequence of elements
ListNull == [null |-> TRUE, elems |-> <<>>]

ListOf(elems) == [null |-> FALSE, elems |-> elems]

\* a types.String nested in a list element is known or unknown
Known(v) == [known |-> TRUE, value |-> v]

Unknown == [known |-> FALSE, value |-> ""]

\* types.ListValueFrom: a nil slice gives the null list
ListValueFrom(slice) == IF slice.isNil THEN ListNull ELSE ListOf(slice.elems)

\* List.ElementsAs into a []string
ElementsAsStrings(list) == IF list.null THEN NilSlice ELSE Slice(list.elems)

\* a nested object attribute left out of the configuration is null
ObjectNull == [null |-> TRUE]

IsObjectNull(v) == "null" \in DOMAIN v

\* the attributes of a step that are nested objects
ObjectFields == {"URL", "ElementText", "LinkHref"}

\* the zero value of matchableValue
ZeroMatchableValue == [Value |-> "", Matching |-> ""]

\* the element holds a value the target struct cannot represent: an unknown
\* id (a Go string) or a null nested object (a Go struct)
HasUnhandled(e) ==
    ~e.ID.known \/ \E f \in DOMAIN e \cap ObjectFields : IsObjectNull(e[f])

\* the struct built from a list element, unhandled values as the zero value
AsStruct(e) ==
    [f \in DOMAIN e |->
        IF f = "ID" THEN e.ID.value
        ELSE IF f \in ObjectFields /\ IsObjectNull(e[f]) THEN ZeroMatchableValue
        ELSE e[f]]

\* List.ElementsAs into a slice of structs: an unknown or null value that the
\* struct cannot represent is an error unless unhandled values are allowed
\* as empty
ElementsAsStructs(list, allowUnhandled) ==
    IF list.null THEN [ok |-> TRUE, slice |-> NilSlice]
    ELSE IF ~allowUnhandled /\ \E i \in 1..Len(list.elems) : HasUnhandled(list.elems[i])
         THEN [ok |-> FALSE, slice |-> NilSlice]
    ELSE [ok |-> TRUE,
          slice |-> Slice([i \in 1..Len(list.elems) |-> AsStruct(list.elems[i])])]

\* the elements of a slice of structs as list elements (every id known)
StructsToList(slice) ==
    ListValueFrom([isNil |-> slice.isNil,
                   elems |-> [i \in 1..Len(slice.elems) |->
                                 [slice.elems[i] EXCEPT !.ID = Known(slice.elems[i].ID)]]])

----------------------------------------------------------------------------
\* sortedStrings

\* the strings that occur in string lists, in the byte order sort.Strings uses
StringsInOrder == <<"", "a", "b", "c", "d">>

StringRank(x) == CHOOSE i \in 1..Len(StringsInOrder) : StringsInOrder[i] = x

RECURSIVE InsertSorted(_, _)
InsertSorted(sorted, x) ==
    IF sorted = <<>> THEN <<x>>
    ELSE IF StringRank(x) < StringRank(Head(sorted)) THEN <<x>> \o sorted
    ELSE <<Head(sorted)>> \o InsertSorted(Tail(sorted), x)

RECURSIVE SortStrings(_)
SortStrings(elems) ==
    IF elems = <<>> THEN <<>> ELSE InsertSorted(SortStrings(Tail(elems)), Head(elems))

\* mutant: only the first element is moved to its place
sortedStringsOnePass(strs) ==
    IF Len(strs.elems) = 0 THEN NilSlice
    ELSE Slice(InsertSorted(Tail(strs.elems), Head(strs.elems)))

\* mutant: the copy is returned as it is
sortedStringsUnsorted(strs) == IF Len(strs.elems) = 0 THEN NilSlice ELSE Slice(strs.elems)

\* sortedStrings: a sorted copy; appending nothing to a nil slice leaves it nil
sortedStrings(strs) == IF Len(strs.elems) = 0 THEN NilSlice ELSE Slice(SortStrings(strs.elems))

\* the caller's slice once sortedStrings has returned: append copied the
\* elements into an array of its own and sort.Strings worked on that copy
sortedStringsArg(strs) == strs

----------------------------------------------------------------------------
\* Action adapter: model translation

\* mutant: a step without an event name is in none of the lists
StepsOfKindNamedOnly(steps, kind) ==
    SelectSeq(steps,
              LAMBDA ev : CASE kind = "$autocapture" -> ev.Event = "$autocapture"
                            [] kind = "$pageview" -> ev.Event = "$pageview"
                            [] OTHER -> ev.Event \notin {"$autocapture", "$pageview", ""})

\* the steps of the response whose event selects the given declarative list
StepsOfKind(steps, kind) ==
    SelectSeq(steps,
              LAMBDA ev : CASE kind = "$autocapture" -> ev.Event = "$autocapture"
                            [] kind = "$pageview" -> ev.Event = "$pageview"
                            [] OTHER -> ev.Event \notin {"$autocapture", "$pageview"})

\* a slice grown by append from nil: nil when nothing was appended
Appended(elems) == IF elems = <<>> THEN NilSlice ELSE Slice(elems)

\* mutant: the step is given no id
ToMatchCustomEventNoID(ev) == [ID |-> "", Event |-> ev.Event]

ToMatchCustomEvent(ev) == [ID |-> ev.ID, Event |-> ev.Event]

ToMatchPageViewEvent(ev) ==
    [ID |-> ev.ID, URL |-> [Value |-> ev.URL, Matching |-> ev.URLMatching]]

ToMatchAutocaptureEvent(ev) ==
    [ID |-> ev.ID,
     URL |-> [Value |-> ev.URL, Matching |-> ev.URLMatching],
     ElementText |-> [Value |-> ev.Text, Matching |-> ev.TextMatching],
     LinkHref |-> [Value |-> ev.Href, Matching |-> ev.HrefMatching],
     Selector |-> ev.Selector]

MapSeq(f(_), elems) == [i \in 1..Len(elems) |-> f(elems[i])]

updateActionModel(model, apiAction) ==
    LET steps == apiAction.Steps.elems
    IN  [model EXCEPT
            !.ID = ActionIDString(apiAction.ID),
            !.Name = apiAction.Name,
            !.Description = apiAction.Description,
            !.Tags = ListValueFrom(sortedStrings(apiAction.Tags)),
            !.MatchCustomEvents =
                StructsToList(Appended(MapSeq(ToMatchCustomEvent, StepsOfKind(steps, "custom")))),
            !.MatchPageViews =
                StructsToList(Appended(MapSeq(ToMatchPageViewEvent,
                                              StepsOfKind(steps, "$pageview")))),
            !.MatchAutocaptures =
                StructsToList(Appended(MapSeq(ToMatchAutocaptureEvent,
                                              StepsOfKind(steps, "$autocapture")))),
            !.PostToWebhook = apiAction.PostToSlack,
            !.WebhookMessageFormat = apiAction.SlackMessageFormat]

\* the call result once updateActionModel has run on the action it points to
actionTranslated(call) ==
    [call EXCEPT !.out = Ptr([call.out.val EXCEPT !.Tags = sortedStringsArg(@)])]

CustomToCreateStep(ev) ==
    [Event |-> ev.Event, URL |-> "", URLMatching |-> "", Text |-> "", TextMatching |-> "",
     Href |-> "", HrefMatching |-> "", Selector |-> ""]

PageViewToCreateStep(ev) ==
    [Event |-> "$pageview", URL |-> ev.URL.Value, URLMatching |-> ev.URL.Matching,
     Text |-> "", TextMatching |-> "", Href |-> "", HrefMatching |-> "", Selector |-> ""]

AutocaptureToCreateStep(ev) ==
    [Event |-> "$autocapture", URL |-> ev.URL.Value, URLMatching |-> ev.URL.Matching,
     Text |-> ev.ElementText.Value, TextMatching |-> ev.ElementText.Matching,
     Href |-> ev.LinkHref.Value, HrefMatching |-> ev.LinkHref.Matching,
     Selector |-> ev.Selector]

CustomToStep(ev) ==
    [ID |-> ev.ID, Event |-> ev.Event, URL |-> "", URLMatching |-> "", Text |-> "",
     TextMatching |-> "", Href |-> "", HrefMatching |-> "", Selector |-> ""]

\* mutant: the matching strategy of a page view is not sent back
PageViewToStepNoMatching(ev) ==
    [ID |-> ev.ID, Event |-> "$pageview", URL |-> ev.URL.Value, URLMatching |-> "",
     Text |-> "", TextMatching |-> "", Href |-> "", HrefMatching |-> "", Selector |-> ""]

PageViewToStep(ev) ==
    [ID |-> ev.ID, Event |-> "$pageview", URL |-> ev.URL.Value, URLMatching |-> ev.URL.Matching,
     Text |-> "", TextMatching |-> "", Href |-> "", HrefMatching |-> "", Selector |-> ""]

AutocaptureToStep(ev) ==
    [ID |-> ev.ID, Event |-> "$autocapture", URL |-> ev.URL.Value,
     URLMatching |-> ev.URL.Matching,
     Text |-> ev.ElementText.Value, TextMatching |-> ev.ElementText.Matching,
     Href |-> ev.LinkHref.Value, HrefMatching |-> ev.LinkHref.Matching,
     Selector |-> ev.Selector]

\* mutant: the page-view steps are put before the custom-event steps
createActionRequestPagesFirst(data) ==
    LET custom == ElementsAsStructs(data.MatchCustomEvents, TRUE).slice.elems
        pages  == ElementsAsStructs(data.MatchPageViews, TRUE).slice.elems
        autos  == ElementsAsStructs(data.MatchAutocaptures, TRUE).slice.elems
    IN  [Name |-> data.Name,
         Description |-> data.Description,
         PostToSlack |-> data.PostToWebhook,
         SlackMessageFormat |-> data.WebhookMessageFormat,
         Tags |-> ElementsAsStrings(data.Tags),
         Steps |-> Appended(MapSeq(PageViewToCreateStep, pages)
                            \o MapSeq(CustomToCreateStep, custom)
                            \o MapSeq(AutocaptureToCreateStep, autos))]

\* the request that actionResource.Create builds from the plan
createActionRequest(data) ==
    LET custom == ElementsAsStructs(data.MatchCustomEvents, TRUE).slice.elems
        pages  == ElementsAsStructs(data.MatchPageViews, TRUE).slice.elems
        autos  == ElementsAsStructs(data.MatchAutocaptures, TRUE).slice.elems
    IN  [Name |-> data.Name,
         Description |-> data.Description,
         PostToSlack |-> data.PostToWebhook,
         SlackMessageFormat |-> data.WebhookMessageFormat,
         Tags |-> ElementsAsStrings(data.Tags),
         Steps |-> Appended(MapSeq(CustomToCreateStep, custom)
                            \o MapSeq(PageViewToCreateStep, pages)
                            \o MapSeq(AutocaptureToCreateStep, autos))]

ZeroAction ==
    [ID |-> Zero64, Name |-> "", Description |-> "", Tags |-> NilSlice, PostToSlack |-> FALSE,
     SlackMessageFormat |-> "", Steps |-> NilSlice, Deleted |-> FALSE, IsCalculating |-> FALSE,
     CreatedAt |-> ZeroTime, LastCalculatedAt |-> ZeroTime]

\* actionFromModel: the project id, the action and the error summary ("" if none)
actionFromModel(data) ==
    LET pid    == ProjectIDFromString(data.ProjectID)
        aid    == ActionIDFromString(data.ID)
        custom == ElementsAsStructs(data.MatchCustomEvents, FALSE)
        pages  == ElementsAsStructs(data.MatchPageViews, FALSE)
        autos  == ElementsAsStructs(data.MatchAutocaptures, FALSE)
        fail(summary) == [projectID |-> Zero64, action |-> ZeroAction, diag |-> summary]
    IN  IF pid.err # ErrNil THEN fail("Invalid project ID")
        ELSE IF aid.err # ErrNil THEN fail("Invalid action ID")
        ELSE IF ~custom.ok \/ ~pages.ok \/ ~autos.ok THEN fail("Value Conversion Error")
        ELSE [projectID |-> pid.val,
              action |-> [ZeroAction EXCEPT
                            !.ID = aid.val,
                            !.Name = data.Name,
                            !.Description = data.Description,
                            !.Tags = ElementsAsStrings(data.Tags),
                            !.Steps = Appended(MapSeq(CustomToStep, custom.slice.elems)
                                               \o MapSeq(PageViewToStep, pages.slice.elems)
                                               \o MapSeq(AutocaptureToStep, autos.slice.elems))],
              diag |-> ""]

----------------------------------------------------------------------------
\* Project adapter: model translation

\* mutant: every mode other than "disabled" counts as enabled
ToolbarEnabledNotDisabled(mode) == mode # ProjectToolbarModeDisabled

\* remote toolbar mode to the enable_toolbar attribute
ToolbarEnabled(mode) == mode = ProjectToolbarModeToolbar

\* the enable_toolbar attribute to the remote toolbar mode
ToolbarModeOf(enable) ==
    IF enable THEN ProjectToolbarModeToolbar ELSE ProjectToolbarModeDisabled

RecorderVersionOf(useV2) ==
    IF useV2 THEN ProjectSessionRecordingVersionV2 ELSE ProjectSessionRecordingVersionV1

updateProjectModel(model, apiProject) ==
    [model EXCEPT
        !.ID = ProjectIDString(apiProject.ID),
        !.Name = apiProject.Name,
        !.DisableAutocapture = apiProject.AutocaptureOptOut,
        !.Timezone = apiProject.Timezone,
        !.AuthorizedURLs = ListValueFrom(sortedStrings(apiProject.AppURLs)),
        !.DataAttributes = ListValueFrom(sortedStrings(apiProject.DataAttributes)),
        !.PersonDisplayNameProperties =
            ListValueFrom(sortedStrings(apiProject.PersonDisplayNameProperties)),
        !.WebhookURL = apiProject.SlackIncomingWebhook,
        !.AnonymizeIPs = apiProject.AnonymizeIPs,
        !.EnableToolbar = ToolbarEnabled(apiProject.ToolbarMode),
        !.RecordUserSessions = apiProject.SessionRecordingOptIn,
        !.CaptureConsoleLogs = apiProject.CaptureConsoleLogOptIn,
        !.CaptureNetworkPerformance = apiProject.CapturePerformanceOptIn,
        !.UseSessionRecorderV2 =
            (apiProject.SessionRecordingVersion = ProjectSessionRecordingVersionV2),
        !.AuthorizedSessionRecordingURLs =
            ListValueFrom(sortedStrings(apiProject.RecordingDomains)),
        !.EnableAccessControl = apiProject.AccessControl,
        !.APIToken = apiProject.APIToken]

\* the call result once updateProjectModel has run on the project it points to
projectTranslated(call) ==
    [call EXCEPT !.out = Ptr([call.out.val EXCEPT
                                !.AppURLs = sortedStringsArg(@),
                                !.DataAttributes = sortedStringsArg(@),
                                !.PersonDisplayNameProperties = sortedStringsArg(@),
                                !.RecordingDomains = sortedStringsArg(@)])]

ZeroProject ==
    [ID |-> Zero64, Name |-> "", AutocaptureOptOut |-> FALSE, Timezone |-> "",
     AppURLs |-> NilSlice, DataAttributes |-> NilSlice,
     PersonDisplayNameProperties |-> NilSlice, SlackIncomingWebhook |-> "",
     AnonymizeIPs |-> FALSE, ToolbarMode |-> "", CapturePerformanceOptIn |-> FALSE,
     CaptureConsoleLogOptIn |-> FALSE, SessionRecordingOptIn |-> FALSE,
     SessionRecordingVersion |-> "", RecordingDomains |-> NilSlice, AccessControl |-> FALSE,
     APIToken |-> "", CompletedSnippetOnboarding |-> FALSE, CreatedAt |-> ZeroTime,
     UpdatedAt |-> ZeroTime]

\* mutant: the identifier is used whether or not it parsed
projectFromModelUnchecked(data) ==
    LET pid == ProjectIDFromString(data.ID)
    IN  [project |->
                [ZeroProject EXCEPT
                    !.ID = pid.val,
                    !.Name = data.Name,
                    !.AutocaptureOptOut = data.DisableAutocapture,
                    !.Timezone = data.Timezone,
                    !.SlackIncomingWebhook = data.WebhookURL,
                    !.AnonymizeIPs = data.AnonymizeIPs,
                    !.CapturePerformanceOptIn = data.CaptureNetworkPerformance,
                    !.SessionRecordingOptIn = data.RecordUserSessions,
                    !.AccessControl = data.EnableAccessControl,
                    !.APIToken = data.APIToken,
                    !.AppURLs = ElementsAsStrings(data.AuthorizedURLs),
                    !.DataAttributes = ElementsAsStrings(data.DataAttributes),
                    !.PersonDisplayNameProperties =
                        ElementsAsStrings(data.PersonDisplayNameProperties),
                    !.ToolbarMode = ToolbarModeOf(data.EnableToolbar),
                    !.SessionRecordingVersion = RecorderVersionOf(data.UseSessionRecorderV2),
                    !.RecordingDomains = ElementsAsStrings(data.AuthorizedSessionRecordingURLs)],
              diag |-> ""]

\* projectFromModel: the project and the error summary ("" if none)
projectFromModel(data) ==
    LET pid == ProjectIDFromString(data.ID)
    IN  IF pid.err # ErrNil THEN [project |-> ZeroProject, diag |-> "Invalid project ID"]
        ELSE [project |->
                [ZeroProject EXCEPT
                    !.ID = pid.val,
                    !.Name = data.Name,
                    !.AutocaptureOptOut = data.DisableAutocapture,
                    !.Timezone = data.Timezone,
                    !.SlackIncomingWebhook = data.WebhookURL,
                    !.AnonymizeIPs = data.AnonymizeIPs,
                    !.CapturePerformanceOptIn = data.CaptureNetworkPerformance,
                    !.SessionRecordingOptIn = data.RecordUserSessions,
                    !.AccessControl = data.EnableAccessControl,
                    !.APIToken = data.APIToken,
                    !.AppURLs = ElementsAsStrings(data.AuthorizedURLs),
                    !.DataAttributes = ElementsAsStrings(data.DataAttributes),
                    !.PersonDisplayNameProperties =
                        ElementsAsStrings(data.PersonDisplayNameProperties),
                    !.ToolbarMode = ToolbarModeOf(data.EnableToolbar),
                    !.SessionRecordingVersion = RecorderVersionOf(data.UseSessionRecorderV2),
                    !.RecordingDomains = ElementsAsStrings(data.AuthorizedSessionRecordingURLs)],
              diag |-> ""]

\* the request that projectResource.Create builds from the plan
createProjectRequest(data) ==
    [Name |-> data.Name,
     AutocaptureOptOut |-> data.DisableAutocapture,
     Timezone |-> data.Timezone,
     SlackIncomingWebhook |-> data.WebhookURL,
     AnonymizeIPs |-> data.AnonymizeIPs,
     CapturePerformanceOptIn |-> data.CaptureNetworkPerformance,
     CaptureConsoleLogOptIn |-> data.CaptureConsoleLogs,
     SessionRecordingOptIn |-> data.RecordUserSessions,
     AccessControl |-> data.EnableAccessControl,
     CompletedSnippetOnboarding |-> TRUE,
     AppURLs |-> ElementsAsStrings(data.AuthorizedURLs),
     DataAttributes |-> ElementsAsStrings(data.DataAttributes),
     PersonDisplayNameProperties |-> ElementsAsStrings(data.PersonDisplayNameProperties),
     ToolbarMode |-> ToolbarModeOf(data.EnableToolbar),
     SessionRecordingVersion |-> RecorderVersionOf(data.UseSessionRecorderV2),
     RecordingDomains |-> ElementsAsStrings(data.AuthorizedSessionRecordingURLs)]

----------------------------------------------------------------------------
\* Values the variables hold when the corresponding thing did not happen

NoState == [kind |-> "none"]

NoResponse == [ok |-> FALSE, StatusCode |-> 0, Body |-> [kind |-> "none"]]

NoReturn == [res |-> NilPtr, err |-> ErrNone]

----------------------------------------------------------------------------
\* Handler outcomes: the tracked state once the handler returned, the
\* requests it issued, the answer it got, what the client method returned,
\* the diagnostics, and the calls made on resp.State.

ActionState(model) == [kind |-> "action", model |-> model]

ProjectState(model) == [kind |-> "project", model |-> model]

SetCall(model) == [call |-> "Set", value |-> model]

RemoveCall == [call |-> "RemoveResource"]

SetAttributeCall(path, value) == [call |-> "SetAttribute", path |-> path, value |-> value]

\* the handler returned with an error before calling the client
NoCall(st, summary) ==
    [state |-> st, reqs |-> <<>>, httpRes |-> NoResponse, ret |-> NoReturn,
     diags |-> <<summary>>, writes |-> <<>>]

\* the client method returned an error
Failed(st, call, t) ==
    [state |-> st, reqs |-> call.sent, httpRes |-> t,
     ret |-> [res |-> call.out, err |-> call.err],
     diags |-> <<"Client Error">>, writes |-> <<>>]

\* the handler dereferenced the nil result of a call that returned no error
Panicked(st, call, t) ==
    [state |-> st, reqs |-> call.sent, httpRes |-> t,
     ret |-> [res |-> call.out, err |-> call.err],
     diags |-> <<"panic: nil pointer dereference">>, writes |-> <<>>]

\* the handler ran to its end
Done(st, call, t, wr) ==
    [state |-> st, reqs |-> call.sent, httpRes |-> t,
     ret |-> [res |-> call.out, err |-> call.err],
     diags |-> <<>>, writes |-> wr]

----------------------------------------------------------------------------
\* Action adapter: handlers

actionCreate(data, t) ==
    LET pid   == ProjectIDFromString(data.ProjectID)
        call  == CreateAction(pid.val, createActionRequest(data), t)
        model == updateActionModel(data, call.out.val)
    IN  IF pid.err # ErrNil THEN NoCall(NoState, "Invalid project ID")
        ELSE IF call.err # ErrNone THEN Failed(NoState, call, t)
        ELSE IF call.out.isNil THEN Panicked(NoState, call, t)
        ELSE Done(ActionState(model), actionTranslated(call), t, <<SetCall(model)>>)

\* mutant: the deleted flag of the response is not looked at
actionReadIgnoreDeleted(prior, t) ==
    LET data  == prior.model
        pid   == ProjectIDFromString(data.ProjectID)
        aid   == ActionIDFromString(data.ID)
        call  == GetAction(pid.val, aid.val, t)
        model == updateActionModel(data, call.out.val)
    IN  IF pid.err # ErrNil THEN NoCall(prior, "Invalid project ID")
        ELSE IF aid.err # ErrNil THEN NoCall(prior, "Invalid action ID")
        ELSE IF call.err # ErrNone THEN Failed(prior, call, t)
        ELSE IF call.out.isNil THEN Done(NoState, call, t, <<RemoveCall>>)
        ELSE Done(ActionState(model), actionTranslated(call), t, <<SetCall(model)>>)

actionRead(prior, t) ==
    LET data  == prior.model
        pid   == ProjectIDFromString(data.ProjectID)
        aid   == ActionIDFromString(data.ID)
        call  == GetAction(pid.val, aid.val, t)
        model == updateActionModel(data, call.out.val)
    IN  IF pid.err # ErrNil THEN NoCall(prior, "Invalid project ID")
        ELSE IF aid.err # ErrNil THEN NoCall(prior, "Invalid action ID")
        ELSE IF call.err # ErrNone THEN Failed(prior, call, t)
        ELSE IF call.out.isNil THEN Done(NoState, call, t, <<RemoveCall>>)
        ELSE IF call.out.val.Deleted THEN Done(NoState, call, t, <<RemoveCall>>)
        ELSE Done(ActionState(model), actionTranslated(call), t, <<SetCall(model)>>)

actionUpdate(prior, data, t) ==
    LET fm    == actionFromModel(data)
        call  == UpdateAction(fm.projectID, fm.action, t)
        model == updateActionModel(data, call.out.val)
    IN  IF fm.diag # "" THEN NoCall(prior, fm.diag)
        ELSE IF call.err # ErrNone THEN Failed(prior, call, t)
        ELSE IF call.out.isNil THEN Panicked(prior, call, t)
        ELSE Done(ActionState(model), actionTranslated(call), t, <<SetCall(model)>>)

\* mutant: the deletion counts only if the response shows the flag
actionDeleteChecked(prior, t) ==
    LET fm   == actionFromModel(prior.model)
        call == UpdateAction(fm.projectID, [fm.action EXCEPT !.Deleted = TRUE], t)
    IN  IF fm.diag # "" THEN NoCall(prior, fm.diag)
        ELSE IF call.err # ErrNone THEN Failed(prior, call, t)
        ELSE IF call.out.isNil \/ ~call.out.val.Deleted THEN Failed(prior, call, t)
        ELSE Done(NoState, call, t, <<>>)

\* mutant: the action is sent back without the deletion flag
actionDeleteNoFlag(prior, t) ==
    LET fm   == actionFromModel(prior.model)
        call == UpdateAction(fm.projectID, fm.action, t)
    IN  IF fm.diag # "" THEN NoCall(prior, fm.diag)
        ELSE IF call.err # ErrNone THEN Failed(prior, call, t)
        ELSE Done(NoState, call, t, <<>>)

\* a Delete that reports no error makes the engine drop the tracked state
actionDelete(prior, t) ==
    LET fm   == actionFromModel(prior.model)
        call == UpdateAction(fm.projectID, [fm.action EXCEPT !.Deleted = TRUE], t)
    IN  IF fm.diag # "" THEN NoCall(prior, fm.diag)
        ELSE IF call.err # ErrNone THEN Failed(prior, call, t)
        ELSE Done(NoState, call, t, <<>>)

\* mutant: splits on every "/" and keeps the first two pieces
SplitN2DropRest(s) ==
    IF \E i \in 1..Len(s) : s[i] = "/"
    THEN LET k    == CHOOSE i \in 1..Len(s) : s[i] = "/" /\ \A j \in 1..(i - 1) : s[j] # "/"
             rest == SubSeq(s, k + 1, Len(s))
             n    == IF \E i \in 1..Len(rest) : rest[i] = "/"
                     THEN (CHOOSE i \in 1..Len(rest) :
                              rest[i] = "/" /\ \A j \in 1..(i - 1) : rest[j] # "/") - 1
                     ELSE Len(rest)
         IN  <<SubSeq(s, 1, k - 1), SubSeq(rest, 1, n)>>
    ELSE <<s>>

\* strings.SplitN(s, "/", 2)
SplitN2(s) ==
    IF \E i \in 1..Len(s) : s[i] = "/"
    THEN LET k == CHOOSE i \in 1..Len(s) : s[i] = "/" /\ \A j \in 1..(i - 1) : s[j] # "/"
         IN  <<SubSeq(s, 1, k - 1), SubSeq(s, k + 1, Len(s))>>
    ELSE <<s>>

parseImportID(s) ==
    LET tokens == SplitN2(s)
        pid    == ProjectIDFromString(tokens[1])
        aid    == ActionIDFromString(tokens[2])
        fail(e) == [projectID |-> Zero64, actionID |-> Zero64, err |-> e]
    IN  IF Len(tokens) # 2 THEN fail("ID not of the form PROJECT_ID/ACTION_ID")
        ELSE IF pid.err # ErrNil THEN fail("invalid project ID")
        ELSE IF aid.err # ErrNil THEN fail("invalid action ID")
        ELSE [projectID |-> pid.val, actionID |-> aid.val, err |-> ""]

\* the state the engine holds for a freshly imported action: every attribute
\* null but the ones the handler set
ImportedActionModel(id, projectID) ==
    [ID |-> id, ProjectID |-> projectID, Name |-> "", Description |-> "", Tags |-> ListNull,
     PostToWebhook |-> FALSE, WebhookMessageFormat |-> "", MatchCustomEvents |-> ListNull,
     MatchPageViews |-> ListNull, MatchAutocaptures |-> ListNull]

\* an import that reports an error is discarded by the engine
actionImportState(id) ==
    LET p   == parseImportID(id)
        aid == ActionIDString(p.actionID)
        pid == ProjectIDString(p.projectID)
    IN  IF p.err # ""
        THEN [state |-> NoState, reqs |-> <<>>, httpRes |-> NoResponse, ret |-> NoReturn,
              diags |-> <<"Invalid import ID">>, writes |-> <<SetAttributeCall("id", aid)>>]
        ELSE [state |-> ActionState(ImportedActionModel(aid, pid)), reqs |-> <<>>,
              httpRes |-> NoResponse, ret |-> NoReturn, diags |-> <<>>,
              writes |-> <<SetAttributeCall("id", aid), SetAttributeCall("project_id", pid)>>]

----------------------------------------------------------------------------
\* Project adapter: handlers

projectCreate(data, t) ==
    LET call  == CreateProject(createProjectRequest(data), t)
        model == updateProjectModel(data, call.out.val)
    IN  IF call.err # ErrNone THEN Failed(NoState, call, t)
        ELSE IF call.out.isNil THEN Panicked(NoState, call, t)
        ELSE Done(ProjectState(model), projectTranslated(call), t, <<SetCall(model)>>)

projectRead(prior, t) ==
    LET data  == prior.model
        pid   == ProjectIDFromString(data.ID)
        call  == GetProject(pid.val, t)
        model == updateProjectModel(data, call.out.val)
    IN  IF pid.err # ErrNil THEN NoCall(prior, "Invalid project ID")
        ELSE IF call.err # ErrNone THEN Failed(prior, call, t)
        ELSE IF call.out.isNil THEN Done(NoState, call, t, <<RemoveCall>>)
        ELSE Done(ProjectState(model), projectTranslated(call), t, <<SetCall(model)>>)

\* mutant: the plan is saved whether or not the call succeeded
projectUpdateSavesPlan(prior, data, t) ==
    LET fm    == projectFromModel(data)
        call  == UpdateProject(fm.project, t)
        model == updateProjectModel(data, call.out.val)
    IN  IF fm.diag # "" THEN NoCall(prior, fm.diag)
        ELSE IF call.err # ErrNone
             THEN [Failed(ProjectState(data), call, t) EXCEPT !.writes = <<SetCall(data)>>]
        ELSE IF call.out.isNil THEN Panicked(prior, call, t)
        ELSE Done(ProjectState(model), projectTranslated(call), t, <<SetCall(model)>>)

projectUpdate(prior, data, t) ==
    LET fm    == projectFromModel(data)
        call  == UpdateProject(fm.project, t)
        model == updateProjectModel(data, call.out.val)
    IN  IF fm.diag # "" THEN NoCall(prior, fm.diag)
        ELSE IF call.err # ErrNone THEN Failed(prior, call, t)
        ELSE IF call.out.isNil THEN Panicked(prior, call, t)
        ELSE Done(ProjectState(model), projectTranslated(call), t, <<SetCall(model)>>)

\* a Delete that reports no error makes the engine drop the tracked state
projectDelete(prior, t) ==
    LET fm   == projectFromModel(prior.model)
        call == DeleteProject(fm.project.ID, t)
    IN  IF fm.diag # "" THEN NoCall(prior, fm.diag)
        ELSE IF call.err # ErrNone THEN Failed(prior, call, t)
        ELSE Done(NoState, call, t, <<>>)

ImportedProjectModel(id) ==
    [ID |-> id, Name |-> "", DisableAutocapture |-> FALSE, Timezone |-> "",
     AuthorizedURLs |-> ListNull, DataAttributes |-> ListNull,
     PersonDisplayNameProperties |-> ListNull, WebhookURL |-> "", AnonymizeIPs |-> FALSE,
     EnableToolbar |-> FALSE, RecordUserSessions |-> FALSE, CaptureConsoleLogs |-> FALSE,
     CaptureNetworkPerformance |-> FALSE, UseSessionRecorderV2 |-> FALSE,
     AuthorizedSessionRecordingURLs |-> ListNull, EnableAccessControl |-> FALSE,
     APIToken |-> ""]

\* an import that reports an error is discarded by the engine
projectImportState(id) ==
    LET p   == ProjectIDFromString(id)
        pid == ProjectIDString(p.val)
    IN  [state |-> IF p.err # ErrNil THEN NoState ELSE ProjectState(ImportedProjectModel(pid)),
         reqs |-> <<>>, httpRes |-> NoResponse, ret |-> NoReturn,
         diags |-> IF p.err # ErrNil THEN <<"Invalid project ID">> ELSE <<>>,
         writes |-> <<SetAttributeCall("id", pid)>>]

----------------------------------------------------------------------------
\* Inputs of the handlers: what the remote may answer

StatusCodes == {StatusOK, StatusCreated, StatusNoContent, StatusNotFound, 500}

TransportFailure == [ok |-> FALSE, StatusCode |-> 0, Body |-> [kind |-> "none"]]

Answers(bodies) ==
    {TransportFailure}
        \cup {[ok |-> TRUE, StatusCode |-> c, Body |-> b] : c \in StatusCodes, b \in bodies}

RemoteActionFull ==
    [id |-> ToU64(5),
     name |-> "n",
     description |-> "d",
     tags |-> Slice(<<"b", "a", "c">>),
     post_to_slack |-> TRUE,
     slack_message_format |-> "f",
     steps |-> Slice(<<[id |-> "s1", event |-> "ev"],
                       [id |-> "s2", event |-> "$pageview", url |-> "/p",
                        url_matching |-> "contains"],
                       [id |-> "s3", event |-> "$autocapture", url |-> "/s",
                        url_matching |-> "contains", text |-> "Sign up",
                        text_matching |-> "exact", href |-> "/h", href_matching |-> "regex",
                        selector |-> ".button"]>>),
     deleted |-> FALSE,
     is_calculating |-> FALSE,
     created_at |-> "2024-01-01T00:00:00Z",
     last_calculated_at |-> "2024-01-02T00:00:00Z"]

RemoteActionDeleted == [RemoteActionFull EXCEPT !.deleted = TRUE]

RemoteActionMinimal == [id |-> ToU64(7), name |-> "m"]

\* steps out of the order the provider sends them in, an empty event name,
\* steps carrying members their kind does not use, a repeated tag
RemoteActionShuffled ==
    [id |-> ToU64(9),
     name |-> "s",
     tags |-> Slice(<<"d", "a", "d">>),
     steps |-> Slice(<<[id |-> "t1", event |-> "$autocapture", selector |-> "a"],
                       [id |-> "t2", event |-> ""],
                       [id |-> "t3", event |-> "$pageview", url |-> "/p",
                        url_matching |-> "regex"],
                       [id |-> "t4", event |-> "ev2", url |-> "/x"],
                       [id |-> "t5", event |-> "$pageview", url |-> "/q",
                        url_matching |-> "exact", text |-> "T"]>>)]

ActionBodies ==
    {EmptyBody, GarbageBody, NullBody, ObjectBody(RemoteActionFull),
     ObjectBody(RemoteActionDeleted), ObjectBody(RemoteActionMinimal),
     ObjectBody(RemoteActionShuffled)}

ActionAnswers == Answers(ActionBodies)

RemoteProjectBare == [id |-> ToU64(1), name |-> "t"]

RemoteProjectFull ==
    [id |-> ToU64(42),
     name |-> "u",
     autocapture_opt_out |-> TRUE,
     timezone |-> "Europe/Paris",
     app_urls |-> Slice(<<"b", "a">>),
     data_attributes |-> Slice(<<"c">>),
     person_display_name_properties |-> Slice(<<"d", "a", "d">>),
     slack_incoming_webhook |-> "https://hooks.example",
     anonymize_ips |-> TRUE,
     toolbar_mode |-> "disabled",
     capture_performance_opt_in |-> TRUE,
     capture_console_log_opt_in |-> TRUE,
     session_recording_opt_in |-> TRUE,
     session_recording_version |-> "v2",
     recording_domains |-> Slice(<<>>),
     access_control |-> TRUE,
     api_token |-> "phc_token",
     completed_snippet_onboarding |-> TRUE,
     created_at |-> "2024-01-01T00:00:00Z",
     updated_at |-> "2024-01-02T00:00:00Z"]

\* toolbar modes a response may carry; the last one is not a mode the client names
RemoteToolbarModes == {"", ProjectToolbarModeToolbar, ProjectToolbarModeDisabled, "other"}

ProjectBodies ==
    {EmptyBody, GarbageBody, NullBody, ObjectBody(RemoteProjectBare),
     ObjectBody(RemoteProjectFull)}
        \cup {ObjectBody(RemoteProjectBare @@ ("toolbar_mode" :> m)) : m \in RemoteToolbarModes}

ProjectAnswers == Answers(ProjectBodies)

----------------------------------------------------------------------------
\* Inputs of the handlers: configurations and plans

ActionSettings ==
    { [Name |-> "n", Description |-> "", Tags |-> ListNull, PostToWebhook |-> FALSE,
       WebhookMessageFormat |-> ""],
      [Name |-> "m", Description |-> "d", Tags |-> ListOf(<<"b", "a">>),
       PostToWebhook |-> TRUE, WebhookMessageFormat |-> "f"] }

\* the three step lists of a configuration; the ids are computed
ActionStepConfigs ==
    { [MatchCustomEvents |-> ListNull, MatchPageViews |-> ListNull,
       MatchAutocaptures |-> ListNull],
      [MatchCustomEvents |-> ListOf(<<[ID |-> Unknown, Event |-> "ev"]>>),
       MatchPageViews |->
           ListOf(<<[ID |-> Unknown, URL |-> [Value |-> "/p", Matching |-> "regex"]],
                    [ID |-> Unknown, URL |-> [Value |-> "/q", Matching |-> "exact"]]>>),
       MatchAutocaptures |->
           ListOf(<<[ID |-> Unknown,
                     URL |-> [Value |-> "/s", Matching |-> "contains"],
                     ElementText |-> [Value |-> "Sign up", Matching |-> "exact"],
                     LinkHref |-> [Value |-> "/h", Matching |-> "contains"],
                     Selector |-> ".button"]>>)],
      [MatchCustomEvents |-> ListOf(<<[ID |-> Unknown, Event |-> "$pageview"],
                                      [ID |-> Unknown, Event |-> "ev"]>>),
       MatchPageViews |-> ListNull,
       MatchAutocaptures |-> ListNull],
      [MatchCustomEvents |-> ListNull,
       MatchPageViews |-> ListNull,
       MatchAutocaptures |->
           ListOf(<<[ID |-> Unknown,
                     URL |-> [Value |-> "/s", Matching |-> "contains"],
                     ElementText |-> ObjectNull,
                     LinkHref |-> ObjectNull,
                     Selector |-> ""]>>)] }

PlanProjectIDs == {<<"4", "2">>, <<"a">>}

\* the plan of a Create: the computed ids are unknown
ActionCreatePlans ==
    { [ID |-> <<>>, ProjectID |-> pid] @@ a @@ st :
        pid \in PlanProjectIDs, a \in ActionSettings, st \in ActionStepConfigs }

\* UseStateForUnknown: a computed id takes the value the state has at the same place
IDsFromState(planList, stateList) ==
    IF planList.null THEN planList
    ELSE ListOf([i \in 1..Len(planList.elems) |->
                    [planList.elems[i] EXCEPT
                        !.ID = IF ~stateList.null /\ i <= Len(stateList.elems)
                               THEN stateList.elems[i].ID ELSE Unknown]])

\* the plans of an Update of the tracked action
ActionUpdatePlans(prior) ==
    { [ID |-> prior.ID, ProjectID |-> prior.ProjectID] @@ a @@
      [MatchCustomEvents |-> IDsFromState(st.MatchCustomEvents, prior.MatchCustomEvents),
       MatchPageViews |-> IDsFromState(st.MatchPageViews, prior.MatchPageViews),
       MatchAutocaptures |-> IDsFromState(st.MatchAutocaptures, prior.MatchAutocaptures)] :
        a \in ActionSettings, st \in ActionStepConfigs }

ProjectSettings ==
    { [Name |-> "t", DisableAutocapture |-> FALSE, Timezone |-> "UTC",
       AuthorizedURLs |-> ListNull, DataAttributes |-> ListNull,
       PersonDisplayNameProperties |-> ListNull, WebhookURL |-> "", AnonymizeIPs |-> FALSE,
       EnableToolbar |-> TRUE, RecordUserSessions |-> TRUE, CaptureConsoleLogs |-> TRUE,
       CaptureNetworkPerformance |-> TRUE, UseSessionRecorderV2 |-> TRUE,
       AuthorizedSessionRecordingURLs |-> ListNull, EnableAccessControl |-> FALSE],
      [Name |-> "u", DisableAutocapture |-> TRUE, Timezone |-> "Europe/Paris",
       AuthorizedURLs |-> ListOf(<<"b", "a">>), DataAttributes |-> ListOf(<<"c">>),
       PersonDisplayNameProperties |-> ListOf(<<>>), WebhookURL |-> "https://hooks.example",
       AnonymizeIPs |-> TRUE, EnableToolbar |-> FALSE, RecordUserSessions |-> FALSE,
       CaptureConsoleLogs |-> FALSE, CaptureNetworkPerformance |-> FALSE,
       UseSessionRecorderV2 |-> FALSE, AuthorizedSessionRecordingURLs |-> ListOf(<<"d">>),
       EnableAccessControl |-> TRUE] }

ProjectCreatePlans == { [ID |-> <<>>, APIToken |-> ""] @@ c : c \in ProjectSettings }

ProjectUpdatePlans(prior) ==
    { [ID |-> prior.ID, APIToken |-> prior.APIToken] @@ c : c \in ProjectSettings }

ActionImportIDs ==
    { <<"4", "2", "/", "7">>, <<"4", "2">>, <<"4", "2", "/", "7", "/", "8">>, <<"/", "7">>,
      <<"4", "2", "/">>, <<"a", "/", "7">>, <<"4", "2", "/", "a">>, <<>> }

ProjectImportIDs ==
    { <<"4", "2">>, <<"0", "0", "7">>, <<"a">>, <<>>, <<"-", "1">> }

----------------------------------------------------------------------------
\* The engine calling the handlers

Init ==
    /\ state = NoState
    /\ op = "init"
    /\ input = <<>>
    /\ reqs = <<>>
    /\ httpRes = NoResponse
    /\ ret = NoReturn
    /\ diags = <<>>
    /\ writes = <<>>
    /\ remote = NoRemote

Ran(name, in, o) ==
    /\ op' = name
    /\ input' = in
    /\ state' = o.state
    /\ reqs' = o.reqs
    /\ httpRes' = o.httpRes
    /\ ret' = o.ret
    /\ diags' = o.diags
    /\ writes' = o.writes
    /\ remote' = remote

ImportOps == {"action.ImportState", "project.ImportState"}

ActionCreate ==
    /\ state = NoState
    /\ \E data \in ActionCreatePlans, t \in ActionAnswers :
            Ran("action.Create", data, actionCreate(data, t))

ActionRead ==
    /\ state.kind = "action"
    /\ \E t \in ActionAnswers : Ran("action.Read", state, actionRead(state, t))

\* an imported resource is read before anything else is done with it
ActionUpdate ==
    /\ state.kind = "action"
    /\ op \notin ImportOps
    /\ \E data \in ActionUpdatePlans(state.model), t \in ActionAnswers :
            Ran("action.Update", data, actionUpdate(state, data, t))

ActionDelete ==
    /\ state.kind = "action"
    /\ op \notin ImportOps
    /\ \E t \in ActionAnswers : Ran("action.Delete", state, actionDelete(state, t))

ActionImportState ==
    /\ state = NoState
    /\ \E id \in ActionImportIDs : Ran("action.ImportState", id, actionImportState(id))

ProjectCreate ==
    /\ state = NoState
    /\ \E data \in ProjectCreatePlans, t \in ProjectAnswers :
            Ran("project.Create", data, projectCreate(data, t))

ProjectRead ==
    /\ state.kind = "project"
    /\ \E t \in ProjectAnswers : Ran("project.Read", state, projectRead(state, t))

ProjectUpdate ==
    /\ state.kind = "project"
    /\ op \notin ImportOps
    /\ \E data \in ProjectUpdatePlans(state.model), t \in ProjectAnswers :
            Ran("project.Update", data, projectUpdate(state, data, t))

ProjectDelete ==
    /\ state.kind = "project"
    /\ op \notin ImportOps
    /\ \E t \in ProjectAnswers : Ran("project.Delete", state, projectDelete(state, t))

ProjectImportState ==
    /\ state = NoState
    /\ \E id \in ProjectImportIDs : Ran("project.ImportState", id, projectImportState(id))

Next ==
    \/ ActionCreate
    \/ ActionRead
    \/ ActionUpdate
    \/ ActionDelete
    \/ ActionImportState
    \/ ProjectCreate
    \/ ProjectRead
    \/ ProjectUpdate
    \/ ProjectDelete
    \/ ProjectImportState

Spec == Init /\ [][Next]_vars

----------------------------------------------------------------------------
\* Inputs of the identifier functions

Alphabet == {"0", "1", "7", "9", "a", "-"}

RECURSIVE StrsUpTo(_)
StrsUpTo(n) ==
    IF n = 0 THEN {<<>>}
    ELSE LET prev == StrsUpTo(n - 1)
         IN  prev \cup {Append(s, c) : s \in {p \in prev : Len(p) = n - 1}, c \in Alphabet}

StrOfDigits(ds) == [i \in 1..Len(ds) |-> DigitChars[ds[i] + 1]]

\* the decimal digits of 2^64-1
MaxUint64Digits == <<1,8,4,4,6,7,4,4,0,7,3,7,0,9,5,5,1,6,1,5>>

StrMaxUint64 == StrOfDigits(MaxUint64Digits)

StrMaxPlusOne == StrOfDigits(<<1,8,4,4,6,7,4,4,0,7,3,7,0,9,5,5,1,6,1,6>>)

BoundaryStrs ==
    { StrMaxUint64,
      StrMaxPlusOne,
      StrOfDigits(<<1,8,4,4,6,7,4,4,0,7,3,7,0,9,5,5,1,6,2,0>>),
      StrOfDigits(<<1,8,4,4,6,7,4,4,0,7,3,7,0,9,5,5,1,6,0,9>>),
      StrOfDigits(<<9,9,9,9,9,9,9,9,9,9,9,9,9,9,9,9,9,9,9,9>>),
      StrOfDigits(<<1,0,0,0,0,0,0,0,0,0,0,0,0,0,0,0,0,0,0,0,0>>),
      <<"0">> \o StrMaxUint64,
      <<"0">> \o StrMaxPlusOne,
      Append(SubSeq(StrMaxUint64, 1, 19), "a"),
      <<"-">> \o StrMaxUint64 }

IDStrings == StrsUpTo(MaxStrLen) \cup BoundaryStrs

BoundaryIDs ==
    { U64(65535, 0, 0, 0), U64(0, 1, 0, 0), U64(65535, 65535, 0, 0), U64(0, 0, 1, 0),
      U64(0, 0, 0, 1), U64(39321, 39321, 39321, 6553), Cutoff10,
      U64(65534, 65535, 65535, 65535), MaxUint64 }

IDValues == {ToU64(n) : n \in 0..MaxSmallID} \cup BoundaryIDs

----------------------------------------------------------------------------
\* The identifier functions applied to the inputs above

InitID ==
    /\ state = NoState
    /\ \/ op = "arg:id" /\ input \in IDValues
       \/ op = "arg:string" /\ input \in IDStrings
    /\ reqs = <<>>
    /\ httpRes = NoResponse
    /\ ret = NoReturn
    /\ diags = <<>>
    /\ writes = <<>>
    /\ remote = NoRemote

CallProjectIDString ==
    /\ op = "arg:id"
    /\ op' = "ProjectID.String"
    /\ ret' = ProjectIDString(input)
    /\ UNCHANGED <<state, input, reqs, httpRes, diags, writes, remote>>

CallActionIDString ==
    /\ op = "arg:id"
    /\ op' = "ActionID.String"
    /\ ret' = ActionIDString(input)
    /\ UNCHANGED <<state, input, reqs, httpRes, diags, writes, remote>>

CallProjectIDFromString ==
    /\ op = "arg:string"
    /\ op' = "ProjectIDFromString"
    /\ ret' = ProjectIDFromString(input)
    /\ UNCHANGED <<state, input, reqs, httpRes, diags, writes, remote>>

CallActionIDFromString ==
    /\ op = "arg:string"
    /\ op' = "ActionIDFromString"
    /\ ret' = ActionIDFromString(input)
    /\ UNCHANGED <<state, input, reqs, httpRes, diags, writes, remote>>

NextID ==
    \/ CallProjectIDString
    \/ CallActionIDString
    \/ CallProjectIDFromString
    \/ CallActionIDFromString

SpecID == InitID /\ [][NextID]_vars

----------------------------------------------------------------------------
\* Claims about the identifier functions

\* the string without its leading zeros, keeping at least one character
RECURSIVE StripZeros(_)
StripZeros(s) == IF Len(s) > 1 /\ s[1] = "0" THEN StripZeros(Tail(s)) ELSE s

AllDigits(s) == \A k \in 1..Len(s) : IsDigit(s[k])

\* the decimal number written by the digit string s is larger than 2^64-1
DecimalExceedsMax(s) ==
    LET t == StripZeros(s)
    IN  \/ Len(t) > 20
        \/ /\ Len(t) = 20
           /\ \E k \in 1..20 :
                /\ \A j \in 1..(k - 1) : DigitVal(t[j]) = MaxUint64Digits[j]
                /\ DigitVal(t[k]) > MaxUint64Digits[k]

\* C8: for every identifier id of either kind, parsing the decimal string
\* produced by String() succeeds and gives back id
C8_ParseOfFormat ==
    /\ op = "ProjectID.String" => ProjectIDFromString(ret) = [val |-> input, err |-> ErrNil]
    /\ op = "ActionID.String" => ActionIDFromString(ret) = [val |-> input, err |-> ErrNil]

C8_Witness ==
    /\ op = "ActionID.String"
    /\ input = MaxUint64
    /\ ret = StrMaxUint64

\* C9 as stated: for every string the parser accepts, formatting the parsed
\* identifier gives back the string
C9_FormatOfParse_Original ==
    /\ (op = "ProjectIDFromString" /\ ret.err = ErrNil) => ProjectIDString(ret.val) = input
    /\ (op = "ActionIDFromString" /\ ret.err = ErrNil) => ActionIDString(ret.val) = input

\* C9 amended: for every string the parser accepts, formatting the parsed
\* identifier gives the string without its leading zeros; it gives back the
\* string itself exactly when the string is "0" or does not start with "0"
C9_FormatOfParse ==
    /\ (op = "ProjectIDFromString" /\ ret.err = ErrNil) =>
            /\ ProjectIDString(ret.val) = StripZeros(input)
            /\ (ProjectIDString(ret.val) = input) <=> (input = <<"0">> \/ input[1] # "0")
    /\ (op = "ActionIDFromString" /\ ret.err = ErrNil) =>
            /\ ActionIDString(ret.val) = StripZeros(input)
            /\ (ActionIDString(ret.val) = input) <=> (input = <<"0">> \/ input[1] # "0")

C9_Witness ==
    /\ op = "ProjectIDFromString"
    /\ input = <<"0", "0", "7">>
    /\ ret.err = ErrNil
    /\ ProjectIDString(ret.val) = <<"7">>

\* C10: the parsers return an error for the empty string, for every string
\* holding a non-digit character and for every digit string whose value
\* exceeds 2^64-1
C10_ParseRejects ==
    (op \in {"ProjectIDFromString", "ActionIDFromString"}) =>
        /\ input = <<>> => ret.err # ErrNil
        /\ ~AllDigits(input) => ret.err # ErrNil
        /\ (input # <<>> /\ AllDigits(input) /\ DecimalExceedsMax(input)) => ret.err # ErrNil

C10_Witness ==
    /\ op = "ActionIDFromString"
    /\ input = StrMaxPlusOne
    /\ ret.err = ErrRange

----------------------------------------------------------------------------
\* Client.do applied to requests and answers

SampleAction ==
    [ZeroAction EXCEPT !.ID = ToU64(7), !.Name = "n", !.Tags = Slice(<<"a">>)]

SampleProject == [ZeroProject EXCEPT !.ID = ToU64(42), !.Name = "t"]

\* the requests the client methods build
ClientRequests ==
    { apiRequestCreateAction(ToU64(42), createActionRequest(ImportedActionModel(<<>>, <<>>))),
      apiRequestUpdateAction(ToU64(42), SampleAction),
      apiRequestUpdateAction(ToU64(42), [SampleAction EXCEPT !.Deleted = TRUE]),
      apiRequestGetAction(ToU64(42), ToU64(7)),
      apiRequestCreateProject(createProjectRequest(ImportedProjectModel(<<>>))),
      apiRequestUpdateProject(SampleProject),
      apiRequestGetProject(ToU64(42)),
      apiRequestDeleteProject(ToU64(42)) }

\* every other combination of expected code, output and 404 flag
OtherRequests ==
    { [Method |-> "GET", Path |-> <<"/projects/">>, Input |-> NoInput, ExpectedCode |-> c,
       Output |-> o, OutputNilIf404 |-> f] :
        c \in StatusCodes, o \in {"none", "Action", "Project"}, f \in BOOLEAN }

DoRequests == ClientRequests \cup OtherRequests

DoAnswers == ActionAnswers \cup ProjectAnswers

InitDo ==
    /\ state = NoState
    /\ op = "arg:do"
    /\ input \in [r : DoRequests, t : DoAnswers]
    /\ reqs = <<>>
    /\ httpRes = NoResponse
    /\ ret = NoReturn
    /\ diags = <<>>
    /\ writes = <<>>
    /\ remote = NoRemote

CallDo ==
    /\ op = "arg:do"
    /\ LET call == do(input.r, input.t)
       IN  /\ op' = "Client.do"
           /\ reqs' = call.sent
           /\ httpRes' = input.t
           /\ ret' = [res |-> call.out, err |-> call.err]
    /\ UNCHANGED <<state, input, diags, writes, remote>>

NextDo == CallDo

SpecDo == InitDo /\ [][NextDo]_vars

----------------------------------------------------------------------------
\* Claims about the client and the handlers

ReadOps == {"action.Read", "project.Read"}

\* C1: when the remote answers 404 to GetAction or GetProject the client
\* returns a nil result and no error, and Read removes the resource from the
\* tracked state without any error diagnostic
C1_NotFoundIsAbsence ==
    (op \in ReadOps /\ reqs # <<>> /\ httpRes.ok /\ httpRes.StatusCode = 404) =>
        /\ ret.res.isNil
        /\ ret.err = ErrNone
        /\ writes = <<RemoveCall>>
        /\ state = NoState
        /\ diags = <<>>

C1_Witness ==
    /\ op = "project.Read"
    /\ Len(reqs) = 1
    /\ reqs[1].Method = "GET"
    /\ httpRes.ok
    /\ httpRes.StatusCode = 404
    /\ httpRes.Body = GarbageBody
    /\ state = NoState
    /\ input.kind = "project"

\* C2: when transport and decoding succeed, do returns no error if and only
\* if the status is the expected code or the request treats 404 as absence and
\* the status is 404; otherwise the error carries the expected code, the
\* observed code and the raw body. A 404 answered to a request built by
\* Create, Update or Delete is an error.
C2_StatusMapping ==
    (op = "Client.do" /\ ret.err.kind \notin {"transport", "decode"}) =>
        LET r == input.r
            t == input.t
        IN  /\ (ret.err = ErrNone) <=>
                    \/ t.StatusCode = r.ExpectedCode
                    \/ r.OutputNilIf404 /\ t.StatusCode = 404
            /\ ret.err # ErrNone => ret.err = ErrStatus(r.ExpectedCode, t.StatusCode, t.Body)
            /\ (r \in ClientRequests /\ r.Method # "GET" /\ t.StatusCode = 404) =>
                    ret.err.kind = "status"

C2_Witness ==
    /\ op = "Client.do"
    /\ input.r.Method = "PATCH"
    /\ input.t.ok
    /\ input.t.StatusCode = 404
    /\ ret.err = ErrStatus(200, 404, input.t.Body)
    /\ input.t.Body.kind = "object"

\* the string holds a valid identifier
ValidID(s) == ParseUint(s).err = ErrNil

\* C3: Delete of an action never issues an HTTP DELETE; it issues one PATCH to
\* /api/projects/{project_id}/actions/{action_id} with the ids of the tracked
\* state, whose body is the action rebuilt from the state with deleted=true
C3_ActionDeleteIsPatch ==
    op = "action.Delete" =>
        /\ \A i \in 1..Len(reqs) : reqs[i].Method # "DELETE"
        /\ (ValidID(input.model.ProjectID) /\ ValidID(input.model.ID)) =>
            /\ Len(reqs) = 1
            /\ reqs[1].Method = "PATCH"
            /\ reqs[1].URL = <<Host, "/api", "/projects/", input.model.ProjectID,
                               "/actions/", input.model.ID>>
            /\ reqs[1].Body.present
            /\ reqs[1].Body.json.deleted = TRUE
            /\ reqs[1].Body.json.id = ParseUint(input.model.ID).val
            /\ reqs[1].Body.json.name = input.model.Name
            /\ reqs[1].Body.json.description = input.model.Description
            /\ reqs[1].Body.json.tags.elems = input.model.Tags.elems
            /\ Len(reqs[1].Body.json.steps.elems) =
                    Len(input.model.MatchCustomEvents.elems)
                    + Len(input.model.MatchPageViews.elems)
                    + Len(input.model.MatchAutocaptures.elems)
            /\ reqs[1].Body.json =
                    MarshalAction([actionFromModel(input.model).action EXCEPT
                                      !.Deleted = TRUE,
                                      !.Tags = nilSliceToEmpty(@),
                                      !.Steps = nilSliceToEmpty(@)])

C3_Witness ==
    /\ op = "action.Delete"
    /\ Len(reqs) = 1
    /\ reqs[1].Method = "PATCH"
    /\ reqs[1].URL = <<Host, "/api", "/projects/", <<"4", "2">>, "/actions/", <<"5">>>>
    /\ reqs[1].Body.json.deleted = TRUE
    /\ Len(reqs[1].Body.json.steps.elems) = 3
    /\ diags = <<>>
    /\ state = NoState

\* C4: when an action Read gets a 200 whose deleted flag is true the resource
\* is removed from the tracked state as for a 404 and the returned action is
\* not written; when the flag is false the translated action is written
C4_ReadDeletedFlag ==
    (op = "action.Read" /\ httpRes.ok /\ httpRes.StatusCode = 200
        /\ httpRes.Body.kind = "object") =>
        LET o == httpRes.Body.val
            m == updateActionModel(input.model, UnmarshalAction(o))
        IN  IF Member(o, "deleted", FALSE)
            THEN /\ writes = <<RemoveCall>>
                 /\ state = NoState
                 /\ diags = <<>>
            ELSE /\ writes = <<SetCall(m)>>
                 /\ state = ActionState(m)
                 /\ diags = <<>>
                 /\ m.ID = FormatUint(Member(o, "id", Zero64))
                 /\ m.Name = Member(o, "name", "")
                 /\ m.ProjectID = input.model.ProjectID

C4_Witness ==
    /\ op = "action.Read"
    /\ httpRes.ok
    /\ httpRes.StatusCode = 200
    /\ httpRes.Body = ObjectBody(RemoteActionDeleted)
    /\ writes = <<RemoveCall>>
    /\ state = NoState

\* C5: Delete of a project issues exactly one HTTP DELETE to
\* /api/projects/{project_id} without a body and reports no error if and only
\* if the remote answers 204; every other status, 200 and 404 included, is an
\* error
C5_ProjectDelete ==
    (op = "project.Delete" /\ ValidID(input.model.ID)) =>
        /\ Len(reqs) = 1
        /\ reqs[1].Method = "DELETE"
        /\ reqs[1].URL = <<Host, "/api", "/projects/", input.model.ID>>
        /\ ~reqs[1].Body.present
        /\ (diags = <<>>) <=> (httpRes.ok /\ httpRes.StatusCode = 204)
        /\ (httpRes.ok /\ httpRes.StatusCode \in {200, 404}) => diags = <<"Client Error">>
        /\ diags = <<>> => state = NoState
        /\ diags # <<>> => state = input

C5_Witness ==
    /\ op = "project.Delete"
    /\ Len(reqs) = 1
    /\ httpRes.ok
    /\ httpRes.StatusCode = 200
    /\ diags = <<"Client Error">>
    /\ state = input

ProjectDecodingOps == {"project.Create", "project.Read", "project.Update"}

\* the handler got a decoded project back from the client
GotProject == op \in ProjectDecodingOps /\ ret.err = ErrNone /\ ~ret.res.isNil

\* C6: after decoding a project response the toolbar mode is never empty: a
\* response that omits toolbar_mode or gives "" is backfilled to "toolbar" and
\* the local model gets enable_toolbar=true; a 201 Create response
\* {"id":1,"name":"t","toolbar_mode":""} yields id "1" and enable_toolbar=true
C6_ToolbarBackfill ==
    GotProject =>
        /\ ret.res.val.ToolbarMode # ""
        /\ Member(httpRes.Body.val, "toolbar_mode", "") = "" =>
                /\ ret.res.val.ToolbarMode = "toolbar"
                /\ state.model.EnableToolbar = TRUE
        /\ (op = "project.Create"
            /\ httpRes.Body.val = [id |-> ToU64(1), name |-> "t", toolbar_mode |-> ""]) =>
                /\ state.model.ID = <<"1">>
                /\ state.model.EnableToolbar = TRUE

C6_Witness ==
    /\ op = "project.Create"
    /\ httpRes.StatusCode = 201
    /\ httpRes.Body = ObjectBody([id |-> ToU64(1), name |-> "t", toolbar_mode |-> ""])
    /\ state.kind = "project"
    /\ state.model.ID = <<"1">>
    /\ state.model.EnableToolbar = TRUE
    /\ input.EnableToolbar = FALSE

\* C7: remote to local, enable_toolbar is true exactly when the backfilled
\* mode is "toolbar" (false for "disabled" and every other non-empty value);
\* local to remote, true is sent as "toolbar" and false as "disabled"; mapping
\* a boolean to the remote string and back gives the boolean
C7_ToolbarMapping ==
    /\ GotProject =>
            LET sent == Member(httpRes.Body.val, "toolbar_mode", "")
            IN  /\ state.model.EnableToolbar <=> (ret.res.val.ToolbarMode = "toolbar")
                /\ state.model.EnableToolbar <=> (sent \in {"", "toolbar"})
    /\ (op \in {"project.Create", "project.Update"} /\ reqs # <<>>) =>
            /\ reqs[1].Body.json.toolbar_mode =
                    (IF input.EnableToolbar THEN "toolbar" ELSE "disabled")
            /\ ToolbarEnabled(reqs[1].Body.json.toolbar_mode) = input.EnableToolbar

C7_Witness ==
    /\ op = "project.Update"
    /\ GotProject
    /\ Member(httpRes.Body.val, "toolbar_mode", "") = "other"
    /\ state.model.EnableToolbar = FALSE
    /\ input.EnableToolbar = TRUE
    /\ reqs[1].Body.json.toolbar_mode = "toolbar"

----------------------------------------------------------------------------
\* parseImportID applied to import strings

MaxImportLen == 4

ImportAlphabet == {"4", "2", "7", "/", "a"}

RECURSIVE ImportStrsUpTo(_)
ImportStrsUpTo(n) ==
    IF n = 0 THEN {<<>>}
    ELSE LET shorter == ImportStrsUpTo(n - 1)
         IN  shorter \cup {Append(s, c) : s \in {x \in shorter : Len(x) = n - 1},
                                          c \in ImportAlphabet}

BoundaryImportStrs ==
    { <<"4", "2", "/", "7", "/", "8">>,
      <<"0", "4", "2", "/", "0", "0", "7">>,
      StrMaxUint64 \o <<"/">> \o StrMaxUint64,
      StrMaxPlusOne \o <<"/", "7">>,
      <<"7", "/">> \o StrMaxPlusOne,
      <<"4", "2", "/", "-", "7">> }

ImportStrings == ImportStrsUpTo(MaxImportLen) \cup BoundaryImportStrs

InitImport ==
    /\ state = NoState
    /\ op = "arg:import"
    /\ input \in ImportStrings
    /\ reqs = <<>>
    /\ httpRes = NoResponse
    /\ ret = NoReturn
    /\ diags = <<>>
    /\ writes = <<>>
    /\ remote = NoRemote

CallParseImportID ==
    /\ op = "arg:import"
    /\ op' = "parseImportID"
    /\ ret' = parseImportID(input)
    /\ UNCHANGED <<state, input, reqs, httpRes, diags, writes, remote>>

NextImport == CallParseImportID

SpecImport == InitImport /\ [][NextImport]_vars

\* a decimal string that denotes an identifier: digits only, at least one,
\* and a value of at most 2^64-1
DenotesID(h) == h # <<>> /\ AllDigits(h) /\ ~DecimalExceedsMax(h)

\* C11: parseImportID splits the import string on its first "/" only: with
\* both halves valid identifiers it yields them (project first, action
\* second); a string without "/" fails with the format error; a string of
\* which either half is not a valid identifier fails, which covers a second
\* "/" and an empty half
C11_ParseImportID ==
    op = "parseImportID" =>
        IF \A i \in 1..Len(input) : input[i] # "/"
        THEN ret.err = "ID not of the form PROJECT_ID/ACTION_ID"
        ELSE LET k == CHOOSE i \in 1..Len(input) :
                        input[i] = "/" /\ \A j \in 1..(i - 1) : input[j] # "/"
                 left  == SubSeq(input, 1, k - 1)
                 right == SubSeq(input, k + 1, Len(input))
             IN  IF DenotesID(left) /\ DenotesID(right)
                 THEN /\ ret.err = ""
                      /\ FormatUint(ret.projectID) = StripZeros(left)
                      /\ FormatUint(ret.actionID) = StripZeros(right)
                 ELSE ret.err \in {"invalid project ID", "invalid action ID"}

C11_Witness ==
    /\ op = "parseImportID"
    /\ input = <<"4", "2", "/", "7">>
    /\ ret = [projectID |-> ToU64(42), actionID |-> ToU64(7), err |-> ""]

----------------------------------------------------------------------------
\* Claims about the translation of steps and lists

\* the handlers that send the action built from a plan
ActionSendOps == {"action.Create", "action.Update"}

\* the step array of the body of the request that was sent
SentSteps == reqs[1].Body.json.steps.elems

\* C12: the flat step list sent by action Create and Update is the custom-event
\* steps, then the page-view steps (event "$pageview"), then the autocapture
\* steps (event "$autocapture"), each group in the order of its declarative
\* list; its length is the sum of the three list lengths
C12_FlatStepOrder ==
    (op \in ActionSendOps /\ reqs # <<>>) =>
        LET custom == input.MatchCustomEvents.elems
            pages  == input.MatchPageViews.elems
            autos  == input.MatchAutocaptures.elems
            nc     == Len(custom)
            np     == Len(pages)
        IN  /\ Len(SentSteps) = nc + np + Len(autos)
            /\ \A i \in 1..nc : SentSteps[i].event = custom[i].Event
            /\ \A i \in 1..np :
                /\ SentSteps[nc + i].event = "$pageview"
                /\ Member(SentSteps[nc + i], "url", "") = pages[i].URL.Value
                /\ Member(SentSteps[nc + i], "url_matching", "") = pages[i].URL.Matching
            /\ \A i \in 1..Len(autos) :
                /\ SentSteps[nc + np + i].event = "$autocapture"
                /\ Member(SentSteps[nc + np + i], "selector", "") = autos[i].Selector
                /\ ~IsObjectNull(autos[i].URL) =>
                        Member(SentSteps[nc + np + i], "url", "") = autos[i].URL.Value

C12_Witness ==
    /\ op = "action.Update"
    /\ Len(reqs) = 1
    /\ Len(input.MatchCustomEvents.elems) = 1
    /\ Len(input.MatchPageViews.elems) = 2
    /\ Len(input.MatchAutocaptures.elems) = 1
    /\ Len(SentSteps) = 4

\* the handlers that translate a response into the action model
ActionModelOps == {"action.Create", "action.Read", "action.Update"}

\* the handler wrote the model it translated from the response to state
WroteActionModel ==
    op \in ActionModelOps /\ diags = <<>> /\ state.kind = "action" /\ writes # <<>>

\* the steps of the decoded response
RemoteSteps == ret.res.val.Steps.elems

\* the declarative list holds a step with this id
InStepList(list, id) == \E i \in 1..Len(list.elems) : list.elems[i].ID = Known(id)

StepListPos(list, id) == CHOOSE i \in 1..Len(list.elems) : list.elems[i].ID = Known(id)

\* C13: every remote step lands in exactly one declarative list: the
\* autocapture list iff its event is "$autocapture", the page-view list iff
\* it is "$pageview", the custom-event list otherwise (an empty name
\* included); the list lengths sum to the remote length and each list keeps
\* the remote relative order
C13_StepPartition ==
    WroteActionModel =>
        LET custom == state.model.MatchCustomEvents
            pages  == state.model.MatchPageViews
            autos  == state.model.MatchAutocaptures
            lists  == {custom, pages, autos}
        IN  /\ Len(custom.elems) + Len(pages.elems) + Len(autos.elems) = Len(RemoteSteps)
            /\ \A k \in 1..Len(RemoteSteps) :
                LET ev == RemoteSteps[k] IN
                /\ InStepList(autos, ev.ID) <=> ev.Event = "$autocapture"
                /\ InStepList(pages, ev.ID) <=> ev.Event = "$pageview"
                /\ InStepList(custom, ev.ID) <=> ev.Event \notin {"$autocapture", "$pageview"}
            /\ \A k, l \in 1..Len(RemoteSteps), list \in lists :
                (/\ k < l
                 /\ InStepList(list, RemoteSteps[k].ID)
                 /\ InStepList(list, RemoteSteps[l].ID))
                    => StepListPos(list, RemoteSteps[k].ID) < StepListPos(list, RemoteSteps[l].ID)

C13_Witness ==
    /\ WroteActionModel
    /\ op = "action.Read"
    /\ Len(RemoteSteps) = 5
    /\ RemoteSteps[1].Event = "$autocapture"
    /\ RemoteSteps[2].Event = ""
    /\ state.model.MatchCustomEvents.elems =
            <<[ID |-> Known("t2"), Event |-> ""], [ID |-> Known("t4"), Event |-> "ev2"]>>
    /\ Len(state.model.MatchPageViews.elems) = 2
    /\ Len(state.model.MatchAutocaptures.elems) = 1

----------------------------------------------------------------------------
\* The two step translations composed, applied to step lists

MaxSteps == 3

MaxListLen == 2

RECURSIVE SeqsUpTo(_, _)
SeqsUpTo(S, n) ==
    IF n = 0 THEN {<<>>}
    ELSE LET shorter == SeqsUpTo(S, n - 1)
         IN  shorter \cup {Append(s, x) : s \in {y \in shorter : Len(y) = n - 1}, x \in S}

\* steps as a response carries them; the last two of each kind but
\* autocapture carry members their kind does not use
RemoteStepSamples ==
    { UnmarshalActionStep(o) : o \in
        { [id |-> "c1", event |-> "ev"],
          [id |-> "c2", event |-> ""],
          [id |-> "c3", event |-> "ev", url |-> "/x", url_matching |-> "exact"],
          [id |-> "p1", event |-> "$pageview", url |-> "/p", url_matching |-> "regex"],
          [id |-> "p2", event |-> "$pageview", url |-> "/q"],
          [id |-> "p3", event |-> "$pageview", url |-> "/p", text |-> "T",
           selector |-> ".s"],
          [id |-> "a1", event |-> "$autocapture", url |-> "/s", url_matching |-> "contains",
           text |-> "Sign up", text_matching |-> "exact", href |-> "/h",
           href_matching |-> "regex", selector |-> ".button"],
          [id |-> "a2", event |-> "$autocapture"] } }

RemoteStepLists == SeqsUpTo(RemoteStepSamples, MaxSteps)

\* event names a configuration may give a custom event
CustomEventNames == {"ev", "", "$pageview", "$autocapture"}

CustomSamples == { [ID |-> Known("c"), Event |-> e] : e \in CustomEventNames }

PageViewSamples ==
    { [ID |-> Known("p"), URL |-> [Value |-> "/p", Matching |-> "regex"]],
      [ID |-> Known("q"), URL |-> [Value |-> "/q", Matching |-> "contains"]] }

AutocaptureSamples ==
    { [ID |-> Known("a"),
       URL |-> [Value |-> "/s", Matching |-> "contains"],
       ElementText |-> [Value |-> "Sign up", Matching |-> "exact"],
       LinkHref |-> [Value |-> "/h", Matching |-> "regex"],
       Selector |-> ".button"],
      [ID |-> Known("b"),
       URL |-> [Value |-> "", Matching |-> "contains"],
       ElementText |-> [Value |-> "", Matching |-> "contains"],
       LinkHref |-> [Value |-> "", Matching |-> "contains"],
       Selector |-> ""] }

\* a declarative list: null when the configuration has none
AsList(elems) == IF elems = <<>> THEN ListNull ELSE ListOf(elems)

LocalStepLists ==
    { [MatchCustomEvents |-> AsList(c), MatchPageViews |-> AsList(p),
       MatchAutocaptures |-> AsList(a)] :
        c \in SeqsUpTo(CustomSamples, MaxListLen),
        p \in SeqsUpTo(PageViewSamples, MaxListLen),
        a \in SeqsUpTo(AutocaptureSamples, MaxListLen) }

\* the tracked action the lists belong to
StepsBaseModel == ImportedActionModel(<<"7">>, <<"4", "2">>)

InitSteps ==
    /\ state = NoState
    /\ \/ op = "arg:remote" /\ input \in RemoteStepLists
       \/ op = "arg:local" /\ input \in LocalStepLists
    /\ reqs = <<>>
    /\ httpRes = NoResponse
    /\ ret = NoReturn
    /\ diags = <<>>
    /\ writes = <<>>
    /\ remote = NoRemote

\* updateActionModel on a response with these steps, then actionFromModel
CallPartitionFlatten ==
    /\ op = "arg:remote"
    /\ op' = "updateActionModel;actionFromModel"
    /\ LET apiAction == [ZeroAction EXCEPT !.ID = ToU64(7), !.Steps = Slice(input)]
           model     == updateActionModel(StepsBaseModel, apiAction)
       IN  ret' = actionFromModel(model).action.Steps
    /\ UNCHANGED <<state, input, reqs, httpRes, diags, writes, remote>>

\* actionFromModel on a model with these lists, then updateActionModel on the
\* action it built
CallFlattenPartition ==
    /\ op = "arg:local"
    /\ op' = "actionFromModel;updateActionModel"
    /\ LET data  == [StepsBaseModel EXCEPT
                        !.MatchCustomEvents = input.MatchCustomEvents,
                        !.MatchPageViews = input.MatchPageViews,
                        !.MatchAutocaptures = input.MatchAutocaptures]
           model == updateActionModel(data, actionFromModel(data).action)
       IN  ret' = [MatchCustomEvents |-> model.MatchCustomEvents,
                   MatchPageViews |-> model.MatchPageViews,
                   MatchAutocaptures |-> model.MatchAutocaptures]
    /\ UNCHANGED <<state, input, reqs, httpRes, diags, writes, remote>>

NextSteps == CallPartitionFlatten \/ CallFlattenPartition

SpecSteps == InitSteps /\ [][NextSteps]_vars

\* the place of a step's kind in the order custom, page view, autocapture
KindRank(ev) ==
    CASE ev.Event = "$autocapture" -> 3
      [] ev.Event = "$pageview" -> 2
      [] OTHER -> 1

OrderedSteps(steps) ==
    \A i, j \in 1..Len(steps) : i < j => KindRank(steps[i]) <= KindRank(steps[j])

\* the step carries no member its kind does not use
OnlyOwnFields(ev) ==
    /\ KindRank(ev) <= 2 =>
        ev.Text = "" /\ ev.TextMatching = "" /\ ev.Href = "" /\ ev.HrefMatching = ""
            /\ ev.Selector = ""
    /\ KindRank(ev) = 1 => ev.URL = "" /\ ev.URLMatching = ""

\* C14 as stated: partitioning then re-flattening a remote list ordered custom,
\* page view, autocapture gives back the list, every field of every step
\* preserved
C14_RemoteRoundTrip_Original ==
    (op = "updateActionModel;actionFromModel" /\ OrderedSteps(input)) => ret.elems = input

\* C14: partitioning then re-flattening a remote list ordered custom, page
\* view, autocapture gives back the list step for step when every step
\* carries only the fields of its kind (a custom step its id and event, a
\* page view also url and url_matching, an autocapture step all of them)
C14_RemoteRoundTrip ==
    (/\ op = "updateActionModel;actionFromModel"
     /\ OrderedSteps(input)
     /\ \A i \in 1..Len(input) : OnlyOwnFields(input[i]))
        => ret.elems = input

C14_Witness ==
    /\ op = "updateActionModel;actionFromModel"
    /\ Len(input) = 3
    /\ KindRank(input[1]) = 1
    /\ KindRank(input[2]) = 2
    /\ input[2].URLMatching = "regex"
    /\ KindRank(input[3]) = 3
    /\ input[3].Selector = ".button"
    /\ ret.elems = input

\* C15: flattening the three step lists of a model and partitioning the
\* result gives back the same three lists, whatever the names of the custom
\* events, "$pageview" and "$autocapture" included
C15_LocalRoundTrip ==
    op = "actionFromModel;updateActionModel" =>
        /\ ret.MatchCustomEvents.elems = input.MatchCustomEvents.elems
        /\ ret.MatchPageViews.elems = input.MatchPageViews.elems
        /\ ret.MatchAutocaptures.elems = input.MatchAutocaptures.elems

\* the handlers that translate a response into the project model
ProjectModelOps == {"project.Create", "project.Read", "project.Update"}

WroteProjectModel ==
    op \in ProjectModelOps /\ diags = <<>> /\ state.kind = "project" /\ writes # <<>>

\* ascending in the byte order of the strings
Ascending(l) == \A i, j \in 1..Len(l) : i < j => StringRank(l[i]) <= StringRank(l[j])

Occurrences(l, x) == Cardinality({i \in 1..Len(l) : l[i] = x})

PermutationOf(l, r) ==
    /\ Len(l) = Len(r)
    /\ \A i \in 1..Len(r) : Occurrences(l, r[i]) = Occurrences(r, r[i])

\* the list member k of the response body, as the server sent it
SentList(k) == Member(httpRes.Body.val, k, NilSlice).elems

\* the list in state is the sorted permutation of the response's list, and
\* the list of the response object is still as the server sent it
NormalizedFrom(stateList, k, responseList) ==
    /\ Ascending(stateList.elems)
    /\ PermutationOf(stateList.elems, SentList(k))
    /\ responseList.elems = SentList(k)

\* C16: after a successful Create, Read or Update each string list written to
\* state (the tags of an action; the authorized urls, data attributes, person
\* display name properties and authorized session recording urls of a
\* project) is in ascending order and a permutation of the list of the
\* response, and the response's own list is not reordered
C16_ListsSorted ==
    /\ WroteActionModel => NormalizedFrom(state.model.Tags, "tags", ret.res.val.Tags)
    /\ WroteProjectModel =>
        /\ NormalizedFrom(state.model.AuthorizedURLs, "app_urls", ret.res.val.AppURLs)
        /\ NormalizedFrom(state.model.DataAttributes, "data_attributes",
                          ret.res.val.DataAttributes)
        /\ NormalizedFrom(state.model.PersonDisplayNameProperties,
                          "person_display_name_properties",
                          ret.res.val.PersonDisplayNameProperties)
        /\ NormalizedFrom(state.model.AuthorizedSessionRecordingURLs, "recording_domains",
                          ret.res.val.RecordingDomains)

C16_Witness ==
    /\ WroteProjectModel
    /\ op = "project.Read"
    /\ SentList("person_display_name_properties") = <<"d", "a", "d">>
    /\ state.model.PersonDisplayNameProperties.elems = <<"a", "d", "d">>
    /\ state.model.AuthorizedURLs.elems = <<"a", "b">>
    /\ ret.res.val.AppURLs.elems = <<"b", "a">>

----------------------------------------------------------------------------
\* sortedStrings applied to pairs of lists that are permutations of each other

MaxSortLen == 3

SortAlphabet == {"", "a", "b", "c"}

\* the slices of up to MaxSortLen strings; the empty one both nil and non-nil
SortSlices == {NilSlice} \cup {Slice(l) : l \in SeqsUpTo(SortAlphabet, MaxSortLen)}

SortPairs ==
    { p \in [l1 : SortSlices, l2 : SortSlices] : PermutationOf(p.l1.elems, p.l2.elems) }

InitSort ==
    /\ state = NoState
    /\ op = "arg:slices"
    /\ input \in SortPairs
    /\ reqs = <<>>
    /\ httpRes = NoResponse
    /\ ret = NoReturn
    /\ diags = <<>>
    /\ writes = <<>>
    /\ remote = NoRemote

\* sortedStrings on each slice of the pair, and on its own result
CallSortedStrings ==
    /\ op = "arg:slices"
    /\ op' = "sortedStrings"
    /\ ret' = [first  |-> sortedStrings(input.l1),
               second |-> sortedStrings(input.l2),
               again  |-> sortedStrings(sortedStrings(input.l1))]
    /\ UNCHANGED <<state, input, reqs, httpRes, diags, writes, remote>>

NextSort == CallSortedStrings

SpecSort == InitSort /\ [][NextSort]_vars

\* C17: sortedStrings is idempotent (applied to its own result it gives that
\* result), leaves an already sorted list as it is (the same elements in the
\* same order), and gives the same result for two lists that are permutations
\* of each other
C17_SortIdempotent ==
    op = "sortedStrings" =>
        /\ ret.again = ret.first
        /\ Ascending(input.l1.elems) => ret.first.elems = input.l1.elems
        /\ PermutationOf(input.l1.elems, input.l2.elems) => ret.first = ret.second

C17_Witness ==
    /\ op = "sortedStrings"
    /\ input.l1.elems = <<"c", "a", "c">>
    /\ input.l2.elems = <<"a", "c", "c">>
    /\ ret.first.elems = <<"a", "c", "c">>
    /\ ret.second = ret.first
    /\ ret.again = ret.first

----------------------------------------------------------------------------
\* Claims about the requests the handlers send

ProjectSendOps == {"project.Create", "project.Update"}

ActionOps == ActionSendOps \cup {"action.Read", "action.Delete", "action.ImportState"}

\* a request that carries a Create or Update body
CarriesBody(req) == req.Method \in {"POST", "PATCH"}

\* what a declarative list is sent as: the empty array when it is null,
\* its elements otherwise
SentAs(list) == IF list.null THEN Slice(<<>>) ELSE Slice(list.elems)

\* C18: in every Create and Update request body the list fields are never
\* null: an absent tags or steps list of an action, and an absent app_urls,
\* data_attributes, person_display_name_properties or recording_domains list
\* of a project, is sent as an empty list, and a list that is present is sent
\* unchanged
C18_ListsNeverNull ==
    /\ \A i \in 1..Len(reqs) :
        CarriesBody(reqs[i]) =>
            LET body == reqs[i].Body.json IN
            IF op \in ActionOps
            THEN ~body.tags.isNil /\ ~body.steps.isNil
            ELSE /\ ~body.app_urls.isNil
                 /\ ~body.data_attributes.isNil
                 /\ ~body.person_display_name_properties.isNil
                 /\ ~body.recording_domains.isNil
    /\ (op \in ActionSendOps /\ reqs # <<>>) =>
        /\ reqs[1].Body.json.tags = SentAs(input.Tags)
        /\ (/\ input.MatchCustomEvents.null
            /\ input.MatchPageViews.null
            /\ input.MatchAutocaptures.null) => reqs[1].Body.json.steps = Slice(<<>>)
    /\ (op \in ProjectSendOps /\ reqs # <<>>) =>
        LET body == reqs[1].Body.json IN
        /\ body.app_urls = SentAs(input.AuthorizedURLs)
        /\ body.data_attributes = SentAs(input.DataAttributes)
        /\ body.person_display_name_properties = SentAs(input.PersonDisplayNameProperties)
        /\ body.recording_domains = SentAs(input.AuthorizedSessionRecordingURLs)

C18_Witness ==
    /\ op = "action.Update"
    /\ Len(reqs) = 1
    /\ input.Tags = ListOf(<<"b", "a">>)
    /\ input.MatchCustomEvents.null
    /\ input.MatchPageViews.null
    /\ input.MatchAutocaptures.null
    /\ reqs[1].Body.json.tags = Slice(<<"b", "a">>)
    /\ reqs[1].Body.json.steps = Slice(<<>>)

\* the values the request carries for a header name
HeaderValues(req, name) == {h[2] : h \in {x \in req.Header : x[1] = name}}

JSONType == {<<"application/json">>}

\* C19: every request the client issues carries Authorization: Bearer
\* <api_key>; it carries Content-Type: application/json iff it has a JSON
\* body (POST, PATCH) and Accept: application/json iff a decoded output is
\* expected, so that a GET has Accept and no Content-Type and the project
\* DELETE has neither
C19_Headers ==
    op = "Client.do" =>
        \A i \in 1..Len(reqs) :
            LET req == reqs[i] IN
            /\ HeaderValues(req, "Authorization") = {<<"Bearer ", APIKey>>}
            /\ HeaderValues(req, "Content-Type") = (IF req.Body.present THEN JSONType ELSE {})
            /\ req.Body.present <=> ~input.r.Input.isNil
            /\ HeaderValues(req, "Accept") = (IF input.r.Output # "none" THEN JSONType ELSE {})
            /\ input.r \in ClientRequests =>
                /\ req.Method \in {"POST", "PATCH"} =>
                    /\ HeaderValues(req, "Content-Type") = JSONType
                    /\ HeaderValues(req, "Accept") = JSONType
                /\ req.Method = "GET" =>
                    /\ HeaderValues(req, "Content-Type") = {}
                    /\ HeaderValues(req, "Accept") = JSONType
                /\ req.Method = "DELETE" =>
                    /\ HeaderValues(req, "Content-Type") = {}
                    /\ HeaderValues(req, "Accept") = {}

C19_Witness ==
    /\ op = "Client.do"
    /\ Len(reqs) = 1
    /\ reqs[1].Method = "DELETE"
    /\ reqs[1].Header = {<<"Authorization", <<"Bearer ", APIKey>>>>}
    /\ input.r = apiRequestDeleteProject(ToU64(42))

CRUDOps ==
    {"action.Create", "action.Read", "action.Update", "action.Delete",
     "project.Create", "project.Read", "project.Update", "project.Delete"}

\* the diagnostics of a handler that stopped before calling the client
ValidationSummaries ==
    {<<"Invalid project ID">>, <<"Invalid action ID">>, <<"Value Conversion Error">>}

\* a step list of the plan that actionFromModel cannot convert: a step whose
\* computed id is unknown or that leaves a nested matcher out
Unconvertible(list) ==
    \E i \in 1..Len(list.elems) :
        \/ ~list.elems[i].ID.known
        \/ \E f \in DOMAIN list.elems[i] \cap {"URL", "ElementText", "LinkHref"} :
                list.elems[i][f] = ObjectNull

----------------------------------------------------------------------------
\* The handlers called with a tracked state whose identifiers are any strings
\* the state file may hold

TrackedIDs == {<<"4", "2">>, <<"a">>, <<>>, StrMaxPlusOne}

TrackedActionModels ==
    { [updateActionModel(ImportedActionModel(<<>>, pid), UnmarshalAction(RemoteActionFull))
          EXCEPT !.ID = aid] : pid \in TrackedIDs, aid \in TrackedIDs }

TrackedProjectModels ==
    { [updateProjectModel(ImportedProjectModel(<<>>), ProjectUnmarshalJSON(RemoteProjectFull))
          EXCEPT !.ID = pid] : pid \in TrackedIDs }

InitTracked ==
    /\ state \in {ActionState(m) : m \in TrackedActionModels}
                    \cup {ProjectState(m) : m \in TrackedProjectModels}
    /\ op = "init"
    /\ input = <<>>
    /\ reqs = <<>>
    /\ httpRes = NoResponse
    /\ ret = NoReturn
    /\ diags = <<>>
    /\ writes = <<>>
    /\ remote = NoRemote

SpecTracked == InitTracked /\ [][Next]_vars

\* the identifiers the handler that ran read from its plan or from the state
IDsRead ==
    CASE op = "action.Create" -> {input.ProjectID}
      [] op = "action.Update" -> {input.ProjectID, input.ID}
      [] op \in {"action.Read", "action.Delete"} -> {input.model.ProjectID, input.model.ID}
      [] op = "project.Update" -> {input.ID}
      [] op \in {"project.Read", "project.Delete"} -> {input.model.ID}
      [] OTHER -> {}

\* the import string does not name an existing kind of identifier
MalformedImport ==
    \/ op = "project.ImportState" /\ ~ValidID(input)
    \/ /\ op = "action.ImportState"
       /\ \/ \A i \in 1..Len(input) : input[i] # "/"
          \/ \E i \in 1..Len(input) :
                /\ input[i] = "/"
                /\ \A j \in 1..(i - 1) : input[j] # "/"
                /\ ~(ValidID(SubSeq(input, 1, i - 1))
                        /\ ValidID(SubSeq(input, i + 1, Len(input))))

\* C21: when the project id or the action id held in the model is not a valid
\* identifier string, action Create, Read, Update, Delete and project Read,
\* Update, Delete report an error diagnostic and issue no HTTP request; a
\* malformed import string makes ImportState report an error and issue no
\* HTTP request
C21_ValidationBeforeCall ==
    ((\E s \in IDsRead : ~ValidID(s)) \/ MalformedImport) => (diags # <<>> /\ reqs = <<>>)

C21_Witness ==
    /\ op = "project.Delete"
    /\ input.model.ID = StrMaxPlusOne
    /\ diags = <<"Invalid project ID">>
    /\ reqs = <<>>
    /\ state = input

----------------------------------------------------------------------------
\* Claims about the Update payloads

\* the body of the request the handler sent
SentBody == reqs[1].Body.json

\* the parts of the PATCH body of an action Update that repeat the plan, the
\* webhook settings apart
ActionUpdateBodyFromPlan ==
    /\ SentBody.name = input.Name
    /\ SentBody.description = input.Description
    /\ SentBody.tags = SentAs(input.Tags)
    /\ Len(SentBody.steps.elems) =
            Len(input.MatchCustomEvents.elems) + Len(input.MatchPageViews.elems)
                + Len(input.MatchAutocaptures.elems)
    /\ SentBody.deleted = FALSE

\* C22: the PATCH body of an action Update is the complete action of the plan:
\* its name, description, tags, post_to_webhook (as post_to_slack),
\* webhook_message_format (as slack_message_format), all steps and the
\* current deletion flag
C22_ActionUpdateComplete ==
    (op = "action.Update" /\ reqs # <<>>) =>
        /\ ActionUpdateBodyFromPlan
        /\ SentBody.post_to_slack = input.PostToWebhook
        /\ SentBody.slack_message_format = input.WebhookMessageFormat

\* the parts of the PATCH body of a project Update that repeat the plan, the
\* console log setting apart
ProjectUpdateBodyFromPlan ==
    /\ SentBody.name = input.Name
    /\ SentBody.autocapture_opt_out = input.DisableAutocapture
    /\ SentBody.timezone = input.Timezone
    /\ SentBody.slack_incoming_webhook = input.WebhookURL
    /\ SentBody.anonymize_ips = input.AnonymizeIPs
    /\ SentBody.capture_performance_opt_in = input.CaptureNetworkPerformance
    /\ SentBody.session_recording_opt_in = input.RecordUserSessions
    /\ SentBody.access_control = input.EnableAccessControl
    /\ SentBody.toolbar_mode = (IF input.EnableToolbar THEN "toolbar" ELSE "disabled")
    /\ SentBody.session_recording_version = (IF input.UseSessionRecorderV2 THEN "v2" ELSE "v1")
    /\ SentBody.app_urls = SentAs(input.AuthorizedURLs)
    /\ SentBody.data_attributes = SentAs(input.DataAttributes)
    /\ SentBody.person_display_name_properties = SentAs(input.PersonDisplayNameProperties)
    /\ SentBody.recording_domains = SentAs(input.AuthorizedSessionRecordingURLs)

\* C23: the PATCH body of a project Update is the complete project of the
\* plan: every configurable setting, capture_console_logs (as
\* capture_console_log_opt_in) and the four lists included, is sent with the
\* planned value
C23_ProjectUpdateComplete ==
    (op = "project.Update" /\ reqs # <<>>) =>
        /\ ProjectUpdateBodyFromPlan
        /\ SentBody.capture_console_log_opt_in = input.CaptureConsoleLogs

----------------------------------------------------------------------------
\* Claims about identifiers and about what the handlers do to the state

CreateOps == {"action.Create", "project.Create"}

\* the id member of the response body, zero when the body has none
ResponseID == Member(httpRes.Body.val, "id", Zero64)

\* the string is the decimal rendering of the identifier
RendersID(s, id) == ParseUint(s) = [val |-> id, err |-> ErrNil] /\ StripZeros(s) = s

\* the ids of the steps of a declarative list, in order
StepIDs(list) == [i \in 1..Len(list.elems) |-> list.elems[i].ID]

\* the ids of the steps of the response body whose event is the given one,
\* or is none of the two reserved ones
ResponseStepIDs(event) ==
    LET steps == SelectSeq(Member(httpRes.Body.val, "steps", NilSlice).elems,
                           LAMBDA o : IF event = "custom"
                                      THEN Member(o, "event", "")
                                                \notin {"$autocapture", "$pageview"}
                                      ELSE Member(o, "event", "") = event)
    IN  [i \in 1..Len(steps) |-> Known(Member(steps[i], "id", ""))]

\* C24: the Create payload of an action or a project carries no identifier,
\* and after a successful Create, Read or Update the id written to state is
\* the decimal rendering of the id of the response; each step id in the
\* state of an action is the id the response gives that step
C24_IdentifiersFromRemote ==
    /\ (op \in CreateOps /\ reqs # <<>>) =>
        /\ "id" \notin DOMAIN SentBody
        /\ op = "action.Create" =>
            \A i \in 1..Len(SentBody.steps.elems) : "id" \notin DOMAIN SentBody.steps.elems[i]
    /\ (WroteActionModel \/ WroteProjectModel) =>
        /\ RendersID(state.model.ID, ResponseID)
        /\ writes = <<SetCall(state.model)>>
    /\ WroteActionModel =>
        /\ StepIDs(state.model.MatchAutocaptures) = ResponseStepIDs("$autocapture")
        /\ StepIDs(state.model.MatchPageViews) = ResponseStepIDs("$pageview")
        /\ StepIDs(state.model.MatchCustomEvents) = ResponseStepIDs("custom")

C24_Witness ==
    /\ op = "action.Create"
    /\ WroteActionModel
    /\ input.ID = <<>>
    /\ \A i \in 1..Len(input.MatchCustomEvents.elems) :
            input.MatchCustomEvents.elems[i].ID = Unknown
    /\ Len(input.MatchCustomEvents.elems) = 2
    /\ ResponseID = ToU64(9)
    /\ state.model.ID = <<"9">>
    /\ StepIDs(state.model.MatchCustomEvents) = <<Known("t2"), Known("t4")>>

\* the remote answered the expected status of a PATCH
Answered200 == httpRes.ok /\ httpRes.StatusCode = StatusOK

\* the handler ended without an error diagnostic
Succeeded == diags = <<>>

\* C25 as stated: the response to the soft-delete PATCH is discarded: action
\* Delete succeeds whenever the remote answers 200, whatever the body, and
\* fails only on a transport failure or another status
C25_DeleteIgnoresBody_Original ==
    (op = "action.Delete" /\ reqs # <<>>) => (Succeeded <=> Answered200)

\* C25: action Delete succeeds exactly when the remote answers the soft-delete
\* PATCH with 200 and a body that decodes (JSON null or an object, whatever
\* its field values); it fails on a transport failure, on another status and
\* on a 200 whose body is empty or not JSON. On success the resource leaves
\* the state, on failure the state stays as it was
C25_DeleteIgnoresBody ==
    (op = "action.Delete" /\ reqs # <<>>) =>
        /\ Succeeded <=> (Answered200 /\ httpRes.Body.kind \in {"null", "object"})
        /\ Succeeded => state = NoState
        /\ ~Succeeded => (state = input /\ diags = <<"Client Error">>)
        /\ writes = <<>>

C25_Witness ==
    /\ op = "action.Delete"
    /\ Answered200
    /\ httpRes.Body = ObjectBody(RemoteActionMinimal)
    /\ input.model.ID # <<"7">>
    /\ Succeeded
    /\ state = NoState

\* the response tells that the resource is gone: a 404, or for an action a
\* 200 whose object has deleted = true
TrulyAbsent ==
    /\ httpRes.ok
    /\ \/ httpRes.StatusCode = StatusNotFound
       \/ /\ op = "action.Read"
          /\ httpRes.StatusCode = StatusOK
          /\ httpRes.Body.kind = "object"
          /\ Member(httpRes.Body.val, "deleted", FALSE)

\* the call failed: no answer, a status that is neither 200 nor 404, or a 200
\* whose body is empty or not JSON
ReadCallFailed ==
    \/ ~httpRes.ok
    \/ httpRes.StatusCode \notin {StatusOK, StatusNotFound}
    \/ httpRes.StatusCode = StatusOK /\ httpRes.Body.kind \in {"empty", "garbage"}

\* C26: Read removes a resource from the tracked state if and only if the
\* remote answers 404 or, for an action, 200 with deleted = true; a transport
\* failure, any other status or an undecodable 200 body makes Read report an
\* error and leave the state as it was
C26_ReadRemovesOnlyAbsent ==
    (op \in ReadOps /\ reqs # <<>>) =>
        /\ (state = NoState \/ RemoveCall \in {writes[i] : i \in 1..Len(writes)})
                <=> TrulyAbsent
        /\ ReadCallFailed => (diags # <<>> /\ state = input /\ writes = <<>>)

----------------------------------------------------------------------------
\* The handlers called against a remote service that stores what it is sent.
\* Actions and projects do not interact in the remote, so a run works on the
\* resources of one kind.

\* identifiers the remote hands out, per kind of resource
MaxRemoteIDs == 2

\* the remote holds the actions and the projects in the order it created
\* them: the identifier of a resource is its position
EmptyRemote == [kind |-> "store", actions |-> <<>>, projects |-> <<>>]

StepIDNames == <<"s1", "s2", "s3", "s4", "s5">>

\* a step keeps the id it is sent with and is given one if it is sent without
StoredSteps(steps) ==
    Slice([i \in 1..Len(steps.elems) |->
              IF Member(steps.elems[i], "id", "") # "" THEN steps.elems[i]
              ELSE ("id" :> StepIDNames[i]) @@ steps.elems[i]])

AnswerObject(code, o) == [ok |-> TRUE, StatusCode |-> code, Body |-> ObjectBody(o)]

AnswerNotFound == AnswerObject(StatusNotFound, [detail |-> "Not found."])

\* the position of the resource a path element names, 0 if there is none
Position(store, idStr) ==
    IF \E k \in 1..Len(store) : FormatUint(ToU64(k)) = idStr
    THEN CHOOSE k \in 1..Len(store) : FormatUint(ToU64(k)) = idStr
    ELSE 0

\* the remote serving a request on the actions of a project: the answer and
\* what it stores afterwards
ServeAction(r, req) ==
    LET url     == req.URL
        k       == IF Len(url) = 6 THEN Position(r.actions, url[6]) ELSE 0
        found   == k # 0 /\ r.actions[k].project = url[4]
        old     == r.actions[k].obj
        sent    == [req.Body.json EXCEPT !.steps = StoredSteps(@)]
        created == [id |-> ToU64(Len(r.actions) + 1), deleted |-> FALSE] @@ sent
        patched == [id |-> old.id] @@ sent @@ old
    IN  CASE req.Method = "POST" ->
                [answer |-> AnswerObject(StatusCreated, created),
                 remote |-> [r EXCEPT !.actions =
                                Append(@, [project |-> url[4], obj |-> created])]]
          [] req.Method = "GET" /\ found ->
                [answer |-> AnswerObject(StatusOK, old), remote |-> r]
          [] req.Method = "PATCH" /\ found ->
                [answer |-> AnswerObject(StatusOK, patched),
                 remote |-> [r EXCEPT !.actions[k].obj = patched]]
          [] OTHER -> [answer |-> AnswerNotFound, remote |-> r]

\* the remote serving a request on the projects; a deleted project is gone
ServeProject(r, req) ==
    LET url     == req.URL
        k       == IF Len(url) = 4 THEN Position(r.projects, url[4]) ELSE 0
        found   == k # 0 /\ ~r.projects[k].gone
        old     == r.projects[k].obj
        created == [id |-> ToU64(Len(r.projects) + 1), api_token |-> "phc_token"]
                       @@ req.Body.json
        patched == [id |-> old.id, api_token |-> old.api_token] @@ req.Body.json @@ old
    IN  CASE req.Method = "POST" ->
                [answer |-> AnswerObject(StatusCreated, created),
                 remote |-> [r EXCEPT !.projects =
                                Append(@, [gone |-> FALSE, obj |-> created])]]
          [] req.Method = "GET" /\ found ->
                [answer |-> AnswerObject(StatusOK, old), remote |-> r]
          [] req.Method = "PATCH" /\ found ->
                [answer |-> AnswerObject(StatusOK, patched),
                 remote |-> [r EXCEPT !.projects[k].obj = patched]]
          [] req.Method = "DELETE" /\ found ->
                [answer |-> [ok |-> TRUE, StatusCode |-> StatusNoContent, Body |-> EmptyBody],
                 remote |-> [r EXCEPT !.projects[k].gone = TRUE]]
          [] OTHER -> [answer |-> AnswerNotFound, remote |-> r]

Serve(r, req) == IF Len(req.URL) >= 5 THEN ServeAction(r, req) ELSE ServeProject(r, req)

\* a request that is sent while the remote is up is served; one sent while it
\* is down gets no answer and changes nothing
Served(sent, up) ==
    IF sent = <<>> \/ ~up
    THEN [answer |-> TransportFailure, remote |-> remote]
    ELSE Serve(remote, sent[1])

RanStored(name, in, o, stored) ==
    /\ op' = name
    /\ input' = in
    /\ state' = o.state
    /\ reqs' = o.reqs
    /\ httpRes' = o.httpRes
    /\ ret' = o.ret
    /\ diags' = o.diags
    /\ writes' = o.writes
    /\ remote' = stored

\* the configurations applied against the storing remote: both settings, with
\* steps of the three kinds
StoredActionPlans ==
    {data \in ActionCreatePlans :
        data.ProjectID = <<"4", "2">> /\ ~data.MatchPageViews.null}

StoredActionUpdatePlans(prior) ==
    {data \in ActionUpdatePlans(prior) : ~data.MatchPageViews.null}

StoredActionImportIDs == {<<"4", "2", "/", "1">>, <<"4", "2", "/", "2">>}

StoredProjectImportIDs == {<<"1">>, <<"2">>}

InitStored ==
    /\ state = NoState
    /\ op = "init"
    /\ input = <<>>
    /\ reqs = <<>>
    /\ httpRes = NoResponse
    /\ ret = NoReturn
    /\ diags = <<>>
    /\ writes = <<>>
    /\ remote = EmptyRemote

ActionCreateStored ==
    /\ state = NoState
    /\ Len(remote.actions) < MaxRemoteIDs
    /\ remote.projects = <<>>
    \* the request a handler sends does not depend on the answer it gets: the
    \* remote serves the request and the handler runs on what it answers
    /\ \E data \in StoredActionPlans, up \in BOOLEAN :
            \E sent \in {actionCreate(data, TransportFailure).reqs} :
            \E served \in {Served(sent, up)} :
                RanStored("action.Create", data,
                          actionCreate(data, served.answer), served.remote)

ActionReadStored ==
    /\ state.kind = "action"
    /\ \E up \in BOOLEAN :
            \E sent \in {actionRead(state, TransportFailure).reqs} :
            \E served \in {Served(sent, up)} :
                RanStored("action.Read", state,
                          actionRead(state, served.answer), served.remote)

ActionUpdateStored ==
    /\ state.kind = "action"
    /\ op \notin ImportOps
    /\ \E data \in StoredActionUpdatePlans(state.model), up \in BOOLEAN :
            \E sent \in {actionUpdate(state, data, TransportFailure).reqs} :
            \E served \in {Served(sent, up)} :
                RanStored("action.Update", data,
                          actionUpdate(state, data, served.answer), served.remote)

ActionDeleteStored ==
    /\ state.kind = "action"
    /\ op \notin ImportOps
    /\ \E up \in BOOLEAN :
            \E sent \in {actionDelete(state, TransportFailure).reqs} :
            \E served \in {Served(sent, up)} :
                RanStored("action.Delete", state,
                          actionDelete(state, served.answer), served.remote)

ActionImportStateStored ==
    /\ state = NoState
    /\ \E id \in StoredActionImportIDs :
            RanStored("action.ImportState", id, actionImportState(id), remote)

ProjectCreateStored ==
    /\ state = NoState
    /\ Len(remote.projects) < MaxRemoteIDs
    /\ remote.actions = <<>>
    /\ \E data \in ProjectCreatePlans, up \in BOOLEAN :
            \E sent \in {projectCreate(data, TransportFailure).reqs} :
            \E served \in {Served(sent, up)} :
                RanStored("project.Create", data,
                          projectCreate(data, served.answer), served.remote)

ProjectReadStored ==
    /\ state.kind = "project"
    /\ \E up \in BOOLEAN :
            \E sent \in {projectRead(state, TransportFailure).reqs} :
            \E served \in {Served(sent, up)} :
                RanStored("project.Read", state,
                          projectRead(state, served.answer), served.remote)

ProjectUpdateStored ==
    /\ state.kind = "project"
    /\ op \notin ImportOps
    /\ \E data \in ProjectUpdatePlans(state.model), up \in BOOLEAN :
            \E sent \in {projectUpdate(state, data, TransportFailure).reqs} :
            \E served \in {Served(sent, up)} :
                RanStored("project.Update", data,
                          projectUpdate(state, data, served.answer), served.remote)

ProjectDeleteStored ==
    /\ state.kind = "project"
    /\ op \notin ImportOps
    /\ \E up \in BOOLEAN :
            \E sent \in {projectDelete(state, TransportFailure).reqs} :
            \E served \in {Served(sent, up)} :
                RanStored("project.Delete", state,
                          projectDelete(state, served.answer), served.remote)

ProjectImportStateStored ==
    /\ state = NoState
    /\ \E id \in StoredProjectImportIDs :
            RanStored("project.ImportState", id, projectImportState(id), remote)

NextStored ==
    \/ ActionCreateStored
    \/ ActionReadStored
    \/ ActionUpdateStored
    \/ ActionDeleteStored
    \/ ActionImportStateStored
    \/ ProjectCreateStored
    \/ ProjectReadStored
    \/ ProjectUpdateStored
    \/ ProjectDeleteStored
    \/ ProjectImportStateStored

SpecStored == InitStored /\ [][NextStored]_vars

----------------------------------------------------------------------------
\* Claims about sequences of operations against the storing remote

DeleteOps == {"action.Delete", "project.Delete"}

\* the remote holds the resource the tracked state st names, and holds it as
\* deleted: an action with the deleted flag set, a project that is gone
DeletedOnRemote(st) ==
    CASE st.kind = "action" ->
            LET k == Position(remote.actions, st.model.ID)
            IN  /\ k # 0
                /\ remote.actions[k].project = st.model.ProjectID
                /\ remote.actions[k].obj.deleted
      [] st.kind = "project" ->
            LET k == Position(remote.projects, st.model.ID)
            IN  k # 0 /\ remote.projects[k].gone
      [] OTHER -> FALSE

\* the tracked state is what an import wrote and no Read has refreshed
UnreadImport(st) ==
    CASE st.kind = "action" ->
            st.model = ImportedActionModel(st.model.ID, st.model.ProjectID)
      [] st.kind = "project" -> st.model = ImportedProjectModel(st.model.ID)
      [] OTHER -> FALSE

\* C27: against a remote that stores what it is sent, a Delete that succeeded
\* has left the resource deleted on the remote and dropped it from the tracked
\* state; every Read the remote answers for a resource it holds as deleted
\* removes the resource from the tracked state, for an action on a 200 with
\* deleted = true and for a project on a 404; and the tracked state names a
\* resource the remote holds as deleted only as the unread result of an import
C27_DeletedStaysDeleted ==
    /\ (op \in DeleteOps /\ Succeeded) => (DeletedOnRemote(input) /\ state = NoState)
    /\ (op \in ReadOps /\ httpRes.ok /\ DeletedOnRemote(input)) =>
            /\ state = NoState
            /\ writes = <<RemoveCall>>
            /\ diags = <<>>
            /\ IF op = "action.Read"
               THEN Answered200 /\ httpRes.Body.val.deleted
               ELSE httpRes.StatusCode = StatusNotFound
    /\ (state # NoState /\ DeletedOnRemote(state)) => UnreadImport(state)

\* a deleted action is imported again and the Read that follows removes it
C27_Witness ==
    /\ op = "action.Read"
    /\ DeletedOnRemote(input)
    /\ Answered200
    /\ httpRes.Body.val.deleted
    /\ state = NoState
    /\ writes = <<RemoveCall>>

\* the same for a project: the Read of the deleted project is answered 404
C27_WitnessProject ==
    /\ op = "project.Read"
    /\ DeletedOnRemote(input)
    /\ httpRes.StatusCode = StatusNotFound
    /\ state = NoState
    /\ writes = <<RemoveCall>>

----------------------------------------------------------------------------
\* Claims about what a handler that failed leaves behind

\* the import identifier does not parse
ImportIDRejected ==
    \/ op = "action.ImportState" /\ parseImportID(input).err # ""
    \/ op = "project.ImportState" /\ ProjectIDFromString(input).err # ErrNil

\* C28: when the import identifier fails to parse, ImportState reports the
\* error and writes no attribute to the state; in particular it does not write
\* the zero identifier "0" as id or project_id
C28_FailedImportWritesNothing ==
    ImportIDRejected => (diags # <<>> /\ writes = <<>>)

\* the handlers that call the remote and save what it answers
ModelOps == ActionModelOps \cup ProjectModelOps

\* the status that makes the call of the handler a success
ExpectedStatus == IF op \in CreateOps THEN StatusCreated ELSE StatusOK

\* the call was made and failed: no answer, an unexpected status (a Read
\* expects the 404 of an absent resource too), or a body that does not decode
CallFailed ==
    /\ reqs # <<>>
    /\ \/ ~httpRes.ok
       \/ /\ httpRes.StatusCode # ExpectedStatus
          /\ ~(op \in ReadOps /\ httpRes.StatusCode = StatusNotFound)
       \/ /\ httpRes.StatusCode = ExpectedStatus
          /\ httpRes.Body.kind \in {"empty", "garbage"}

\* the model the handler translates from the decoded response
TranslatedModel ==
    LET data == IF op \in ReadOps THEN input.model ELSE input
    IN  IF op \in ActionModelOps
        THEN updateActionModel(data, ret.res.val)
        ELSE updateProjectModel(data, ret.res.val)

\* the handler saved once, after a call that succeeded: the translation of
\* the response, or the removal of a resource the remote does not hold
SavedOnceAfterSuccess ==
    /\ Len(writes) = 1
    /\ reqs # <<>>
    /\ ~CallFailed
    /\ ret.err = ErrNone
    /\ diags = <<>>
    /\ \/ writes = <<RemoveCall>> /\ state = NoState /\ op \in ReadOps
       \/ /\ ~ret.res.isNil
          /\ writes = <<SetCall(TranslatedModel)>>
          /\ state.model = TranslatedModel

\* C29: when the call of a Create, Read or Update fails (no answer, unexpected
\* status, undecodable body) the handler reports an error, makes no call on
\* the state and leaves the tracked state as it was; a handler that touches
\* the state does so once, after a call that succeeded, with the translation
\* of the response
C29_FailedCallLeavesState ==
    [][op' \in ModelOps =>
          /\ CallFailed' => (diags' # <<>> /\ writes' = <<>> /\ state' = state)
          /\ writes' # <<>> => SavedOnceAfterSuccess']_vars

\* an Update whose response body does not decode: an error, nothing saved
C29_Witness ==
    /\ op = "action.Update"
    /\ CallFailed
    /\ httpRes.StatusCode = StatusOK
    /\ ret.err = ErrDecode
    /\ diags = <<"Client Error">>
    /\ writes = <<>>
    /\ state.kind = "action"

----------------------------------------------------------------------------
\* Claims about an Update that changes nothing

UpdateOps == {"action.Update", "project.Update"}

\* a step list of a plan without its computed ids
WithoutIDs(list) ==
    IF list.null THEN list
    ELSE ListOf([i \in 1..Len(list.elems) |-> [list.elems[i] EXCEPT !.ID = Unknown]])

\* what the user configured in a plan: the plan without its computed attributes
Configuration(data) ==
    IF "ProjectID" \in DOMAIN data
    THEN [Name |-> data.Name, Description |-> data.Description, Tags |-> data.Tags,
          PostToWebhook |-> data.PostToWebhook,
          WebhookMessageFormat |-> data.WebhookMessageFormat,
          MatchCustomEvents |-> WithoutIDs(data.MatchCustomEvents),
          MatchPageViews |-> WithoutIDs(data.MatchPageViews),
          MatchAutocaptures |-> WithoutIDs(data.MatchAutocaptures)]
    ELSE [f \in DOMAIN data \ {"ID", "APIToken"} |-> data[f]]

\* the members of a create payload: the settings of the resource
ActionSettingKeys ==
    {"name", "description", "tags", "post_to_slack", "slack_message_format", "steps"}

ProjectSettingKeys ==
    {"name", "autocapture_opt_out", "timezone", "app_urls", "data_attributes",
     "person_display_name_properties", "slack_incoming_webhook", "anonymize_ips",
     "toolbar_mode", "capture_performance_opt_in", "capture_console_log_opt_in",
     "session_recording_opt_in", "session_recording_version", "recording_domains",
     "access_control", "completed_snippet_onboarding"}

\* the object the remote stores for the tracked resource
TrackedObject ==
    IF state.kind = "action"
    THEN remote.actions[Position(remote.actions, state.model.ID)].obj
    ELSE remote.projects[Position(remote.projects, state.model.ID)].obj

\* the value the remote holds for a setting; a string the payload left out
\* because it was empty is the empty string
StoredSetting(k) == Member(TrackedObject, k, "")

\* a Create that succeeded is followed by an Update of the same configuration
\* that succeeded
NoOpUpdate ==
    /\ op \in CreateOps
    /\ Succeeded
    /\ op' \in UpdateOps
    /\ diags' = <<>>
    /\ Configuration(input') = Configuration(input)

\* the settings the Update of a configuration is allowed to leave as they are
SettingsKept(keys) == \A k \in keys : StoredSetting(k)' = StoredSetting(k)

\* C30: against a remote that stores the fields it is sent, Create(m) followed
\* by Update with the same configuration m leaves every remote setting of the
\* resource as it was right after Create, post_to_slack and
\* slack_message_format of an action and capture_console_log_opt_in and
\* completed_snippet_onboarding of a project included
C30_NoOpUpdateHarmless ==
    [][NoOpUpdate =>
          SettingsKept(IF op = "action.Create" THEN ActionSettingKeys
                       ELSE ProjectSettingKeys)]_vars

====
